---- MODULE Spec2Model ----
(***************************************************************************)
(* A model of the datastore model classes of Bridgy Fed (src/models.py):   *)
(* the protocol registry, User (get_by_id, get_or_create, status,          *)
(* is_enabled, enable_protocol, disable_protocol, add), Object             *)
(* (get_or_create, as1, add), Follower (get_or_create) and the copy        *)
(* lookups get_original_user_key / get_original_object_key with their      *)
(* two cache layers.                                                       *)
(*                                                                         *)
(* The module holds several specifications, one per part of the program;   *)
(* each leaves the variables of the other parts at their idle values.      *)
(***************************************************************************)
EXTENDS Integers, Sequences, FiniteSets, TLC

VARIABLES
    st,          \* SpecStatus: one User with its profile, and the status computed
    users,       \* datastore: user id -> User entity
    profiles,    \* datastore: user id -> the as1 of the user's profile Object
    lru_user,    \* lru_cache of get_original_user_key, this process
    mc_user,     \* pickle_memcache entries of get_original_user_key
    appended,    \* copy ids that User.add('copies', ...) appended in this process
    call,        \* the call in progress or just returned: request and result
    nops,        \* number of calls made so far
    objects,     \* datastore: object id -> Object entity
    followers,   \* datastore: the Follower entities
    procs,       \* SpecEnable: each process's User instance, call and transaction
    version,     \* SpecEnable: number of commits that wrote the user
    dms,         \* SpecEnable: welcome DMs handed to dms.maybe_send, per protocol
    registry     \* SpecRegistry: the PROTOCOLS and PROTOCOLS_BY_KIND dicts

vars == <<st, users, profiles, lru_user, mc_user, appended, call, nops,
          objects, followers, procs, version, dms, registry>>

(***************************************************************************)
(* Protocol registry.  PROTOCOLS maps a label to a User subclass; the      *)
(* subclasses themselves (web.py, activitypub.py, atproto.py) carry the    *)
(* class-level flags read by models.py.                                    *)
(***************************************************************************)
Labels == {"web", "activitypub", "atproto"}

\* None for a label, a status or a key
NONE == "none"

\* None where the value, when there is one, is a record
Absent == [absent |-> TRUE]

\* The class attributes of one protocol that User reads.  fake, other and
\* efake are the protocols registered under DEBUG; each of them has copies.
Descriptor(label) ==
    CASE label = "web" ->
           [LABEL |-> "web", HAS_COPIES |-> FALSE,
            DEFAULT_ENABLED_PROTOCOLS |-> {"activitypub", "atproto"},
            REQUIRES_AVATAR |-> FALSE, REQUIRES_NAME |-> FALSE,
            REQUIRES_OLD_ACCOUNT |-> FALSE]
      [] label = "activitypub" ->
           [LABEL |-> "activitypub", HAS_COPIES |-> FALSE,
            DEFAULT_ENABLED_PROTOCOLS |-> {"web"},
            REQUIRES_AVATAR |-> TRUE, REQUIRES_NAME |-> FALSE,
            REQUIRES_OLD_ACCOUNT |-> TRUE]
      [] label \in {"fake", "other", "efake"} ->
           [LABEL |-> label, HAS_COPIES |-> TRUE,
            DEFAULT_ENABLED_PROTOCOLS |->
                IF label = "fake" THEN {"other"}
                ELSE IF label = "other" THEN {"fake"} ELSE {},
            REQUIRES_AVATAR |-> FALSE, REQUIRES_NAME |-> FALSE,
            REQUIRES_OLD_ACCOUNT |-> FALSE]
      [] OTHER ->
           [LABEL |-> "atproto", HAS_COPIES |-> TRUE,
            DEFAULT_ENABLED_PROTOCOLS |-> {"web"},
            REQUIRES_AVATAR |-> TRUE, REQUIRES_NAME |-> TRUE,
            REQUIRES_OLD_ACCOUNT |-> FALSE]

\* PROTOCOLS[label]
PROTOCOLS(label) == Descriptor(label)

\* ids.COPIES_PROTOCOLS, as reset_protocol_properties computes it
COPIES_PROTOCOLS == {l \in Labels : PROTOCOLS(l).HAS_COPIES}

(***************************************************************************)
(* Profiles.  The as1 of a profile Object, reduced to what User.status     *)
(* reads: image, displayName (absent, equal to the handle or the id, or a  *)
(* real name), published (absent, older or newer than OLD_ACCOUNT_AGE),    *)
(* the markers found in html_to_text(summary) and in displayName, and      *)
(* as1.is_public.  as1 = FALSE is a missing Object or an empty as1.        *)
(***************************************************************************)
Markers == {"#nobridge", "#nobot"}

NoProfile ==
    [as1 |-> FALSE, image |-> FALSE, displayName |-> "absent",
     published |-> "absent", summary |-> {}, nameMarkers |-> {},
     public |-> FALSE]

AllProfiles ==
    {NoProfile} \cup
    {p \in [as1 : {TRUE}, image : BOOLEAN,
            displayName : {"absent", "handle", "real"},
            published : {"absent", "old", "recent"},
            summary : SUBSET Markers, nameMarkers : SUBSET Markers,
            public : BOOLEAN] :
        p.displayName = "absent" => p.nameMarkers = {}}

\* User.status with the enabled_protocols test moved below the is_public and
\* #nobot tests
status_optin_last(cls, manual_opt_out, enabled_protocols, obj) ==
    IF manual_opt_out THEN "opt-out"
    ELSE IF ~obj.as1 THEN NONE
    ELSE IF cls.REQUIRES_AVATAR /\ ~obj.image THEN "blocked"
    ELSE IF cls.REQUIRES_NAME /\ obj.displayName \in {"absent", "handle"}
        THEN "blocked"
    ELSE IF cls.REQUIRES_OLD_ACCOUNT /\ obj.published = "recent" THEN "blocked"
    ELSE IF "#nobridge" \in obj.summary \/ "#nobridge" \in obj.nameMarkers
        THEN "opt-out"
    ELSE IF ~obj.public THEN "opt-out"
    ELSE IF "#nobot" \in obj.summary \/ "#nobot" \in obj.nameMarkers
        THEN "opt-out"
    ELSE NONE

\* User.status with the #nobridge test moved below the enabled_protocols test
status_optin_first(cls, manual_opt_out, enabled_protocols, obj) ==
    IF manual_opt_out THEN "opt-out"
    ELSE IF ~obj.as1 THEN NONE
    ELSE IF cls.REQUIRES_AVATAR /\ ~obj.image THEN "blocked"
    ELSE IF cls.REQUIRES_NAME /\ obj.displayName \in {"absent", "handle"}
        THEN "blocked"
    ELSE IF cls.REQUIRES_OLD_ACCOUNT /\ obj.published = "recent" THEN "blocked"
    ELSE IF enabled_protocols /= {} THEN NONE
    ELSE IF "#nobridge" \in obj.summary \/ "#nobridge" \in obj.nameMarkers
        THEN "opt-out"
    ELSE IF ~obj.public THEN "opt-out"
    ELSE IF "#nobot" \in obj.summary \/ "#nobot" \in obj.nameMarkers
        THEN "opt-out"
    ELSE NONE

\* User.status: cls is the user's class, obj its loaded profile
status(cls, manual_opt_out, enabled_protocols, obj) ==
    IF manual_opt_out THEN "opt-out"
    ELSE IF ~obj.as1 THEN NONE
    ELSE IF cls.REQUIRES_AVATAR /\ ~obj.image THEN "blocked"
    ELSE IF cls.REQUIRES_NAME /\ obj.displayName \in {"absent", "handle"}
        THEN "blocked"
    ELSE IF cls.REQUIRES_OLD_ACCOUNT /\ obj.published = "recent" THEN "blocked"
    ELSE IF "#nobridge" \in obj.summary \/ "#nobridge" \in obj.nameMarkers
        THEN "opt-out"
    ELSE IF enabled_protocols /= {} THEN NONE
    ELSE IF ~obj.public THEN "opt-out"
    ELSE IF "#nobot" \in obj.summary \/ "#nobot" \in obj.nameMarkers
        THEN "opt-out"
    ELSE NONE

(***************************************************************************)
(* SpecStatus: User.status applied to every combination of class flags,    *)
(* manual_opt_out, enabled_protocols and profile.                          *)
(***************************************************************************)
Classes ==
    [LABEL : {"fake"}, HAS_COPIES : {FALSE}, DEFAULT_ENABLED_PROTOCOLS : {{}},
     REQUIRES_AVATAR : BOOLEAN, REQUIRES_NAME : BOOLEAN,
     REQUIRES_OLD_ACCOUNT : BOOLEAN]

StatusIdle == st = [phase |-> "idle"]

StatusInit ==
    st \in [phase : {"input"}, cls : Classes, manual_opt_out : BOOLEAN,
            enabled_protocols : {{}, {"web"}}, obj : AllProfiles,
            result : {"unset"}]

ReadStatus ==
    /\ st.phase = "input"
    /\ st' = [st EXCEPT !.phase = "read",
                        !.result = status(st.cls, st.manual_opt_out,
                                          st.enabled_protocols, st.obj)]

StatusNext == ReadStatus

(***************************************************************************)
(* Users.  A User's key is its class and its id; every id below belongs to *)
(* one protocol (the one whose owns_id claims it), so the id alone names   *)
(* the key.  "w!" is an id that the Web class's put validation rejects.    *)
(***************************************************************************)
UserIds == {"w1", "w!", "a1", "d1", "d2"}

\* the protocol whose owns_id claims the id
Owner(id) ==
    CASE id \in {"w1", "w!", "bsky.brid.gy"} -> "web"
      [] id \in {"a1", "a1/p"} -> "activitypub"
      [] id = "f1" -> "fake"
      [] OTHER -> "atproto"

\* Protocol.owns_id, True or False here
owns_id(label, id) == Owner(id) = label

\* the ids get_by_id and get_or_create are called with; "d2" is only ever
\* the id of a copy
CallIds == {"w1", "w!", "a1", "d1"}

\* whether put accepts the id (the subclass's _pre_put_hook assertion)
ValidId(id) == id /= "w!"

\* Protocol.for_bridgy_subdomain: the protocol a bridge-owned id stands for;
\* bsky.brid.gy is the Web user that is the bridge's account for ATProto
for_bridgy_subdomain(id) == IF id = "bsky.brid.gy" THEN "atproto" ELSE NONE

\* Target(protocol, uri)
Target(label, uri) == [protocol |-> label, uri |-> uri]

\* DM(protocol, type)
DM(label, type) == [protocol |-> label, type |-> type]

\* A key with no entity behind it
NoUser ==
    [exists |-> FALSE, obj_key |-> FALSE, use_instead |-> NONE, copies |-> {},
     direct |-> FALSE, manual_opt_out |-> FALSE, enabled_protocols |-> {},
     sent_dms |-> {}, mod |-> FALSE]

\* User.obj: the profile Object behind obj_key, if any
user_obj(u, id, profs) == IF u.obj_key THEN profs[id] ELSE NoProfile

\* user.status for the entity u stored (or about to be stored) under id
user_status(id, u, profs) ==
    status(PROTOCOLS(Owner(id)), u.manual_opt_out, u.enabled_protocols,
           user_obj(u, id, profs))

\* User.get_by_id without the use_instead branch
get_by_id_no_redirect(us, profs, id, allow_opt_out) ==
    LET user == us[id]
    IN  IF ~user.exists THEN NONE
        ELSE IF user_status(id, user, profs) /= NONE /\ ~allow_opt_out THEN NONE
        ELSE id

\* User.get_by_id: the id of the user returned, or NONE
get_by_id(us, profs, id, allow_opt_out) ==
    LET user == us[id]
    IN  IF ~user.exists THEN NONE
        ELSE IF user.use_instead /= NONE
            THEN IF us[user.use_instead].exists THEN user.use_instead ELSE NONE
        ELSE IF user_status(id, user, profs) /= NONE /\ ~allow_opt_out THEN NONE
        ELSE id

\* User.get_copy: whether the user has a copy in (or is native to) the protocol
has_copy(id, u, label) ==
    \/ Owner(id) = label
    \/ \E c \in u.copies : c.protocol = label

\* User.is_enabled without the test for the bridge's own accounts
is_enabled_no_bot(id, u, profs, to_label, explicit) ==
    IF Owner(id) = to_label THEN TRUE
    ELSE IF u.manual_opt_out THEN FALSE
    ELSE IF to_label \in u.enabled_protocols THEN TRUE
    ELSE IF user_status(id, u, profs) /= NONE THEN FALSE
    ELSE to_label \in PROTOCOLS(Owner(id)).DEFAULT_ENABLED_PROTOCOLS /\ ~explicit

\* User.is_enabled
is_enabled(id, u, profs, to_label, explicit) ==
    IF Owner(id) = to_label THEN TRUE
    ELSE IF for_bridgy_subdomain(id) /= NONE
        THEN to_label /= for_bridgy_subdomain(id)
    ELSE IF u.manual_opt_out THEN FALSE
    ELSE IF to_label \in u.enabled_protocols THEN TRUE
    ELSE IF user_status(id, u, profs) /= NONE THEN FALSE
    ELSE to_label \in PROTOCOLS(Owner(id)).DEFAULT_ENABLED_PROTOCOLS /\ ~explicit

(***************************************************************************)
(* get_original_user_key and its caches: functools.lru_cache (this         *)
(* process) around memcache_memoize (shared) around the datastore query.   *)
(* A cache maps a copy id to "unset" (no entry), NONE (a cached None) or   *)
(* the id of the owning user.                                              *)
(***************************************************************************)
ProtocolOrder == <<"activitypub", "atproto", "web">>

UserIdOrder == <<"a1", "d1", "d2", "w!", "w1">>

\* proto.query(proto.copies.uri == copy_id).get(keys_only=True)
query_copies(us, label, copy_id) ==
    LET hits == {i \in 1..Len(UserIdOrder) :
                    /\ Owner(UserIdOrder[i]) = label
                    /\ us[UserIdOrder[i]].exists
                    /\ \E c \in us[UserIdOrder[i]].copies : c.uri = copy_id}
    IN  IF hits = {} THEN NONE
        ELSE UserIdOrder[CHOOSE i \in hits : \A j \in hits : i <= j]

\* the body of get_original_user_key: the first protocol, in PROTOCOLS order,
\* that does not own copy_id and has a user with that copy
original_user_query(us, copy_id) ==
    LET hits == {i \in 1..Len(ProtocolOrder) :
                    /\ ProtocolOrder[i] /= "ui"
                    /\ ~owns_id(ProtocolOrder[i], copy_id)
                    /\ query_copies(us, ProtocolOrder[i], copy_id) /= NONE}
    IN  IF hits = {} THEN NONE
        ELSE query_copies(us, ProtocolOrder[CHOOSE i \in hits :
                                               \A j \in hits : i <= j], copy_id)

\* get_original_user_key(copy_id): the key returned, the caches afterwards,
\* and the number of datastore queries run
get_original_user_key(us, lru, mc, copy_id) ==
    IF lru[copy_id] /= "unset"
        THEN [key |-> lru[copy_id], lru |-> lru, mc |-> mc, queried |-> 0]
    ELSE IF mc[copy_id] /= "unset"
        THEN [key |-> mc[copy_id],
              lru |-> [lru EXCEPT ![copy_id] = mc[copy_id]],
              mc |-> mc, queried |-> 0]
    ELSE LET k == original_user_query(us, copy_id)
         IN  [key |-> k, lru |-> [lru EXCEPT ![copy_id] = k],
              mc |-> [mc EXCEPT ![copy_id] = k], queried |-> 1]

(***************************************************************************)
(* User.get_or_create.  kw holds the keyword arguments the code reads:     *)
(* direct ("omit", "false" or "true"), obj (whether the user's profile     *)
(* Object is passed) and enabled_protocols.  loaded is what                *)
(* reload_profile's Protocol.load returns (NoProfile: nothing), fail       *)
(* whether create_for raises ValueError, and uri the id of the copy a      *)
(* successful create_for adds.                                             *)
(***************************************************************************)
SmallProfiles ==
    {[as1 |-> TRUE, image |-> TRUE, displayName |-> "real",
      published |-> "old", summary |-> s, nameMarkers |-> {},
      public |-> TRUE] : s \in {{}, {"#nobridge"}}}

KwArgs ==
    {kw \in [direct : {"omit", "false", "true"}, obj : BOOLEAN,
             enabled_protocols : {{}, {"atproto"}}] :
        Cardinality({kw.direct} \ {"omit"}) + (IF kw.obj THEN 1 ELSE 0)
            + Cardinality(kw.enabled_protocols) <= 1}

\* cls(id=id, **kwargs)
NewUser(kw) ==
    [NoUser EXCEPT !.exists = TRUE, !.direct = (kw.direct = "true"),
                   !.obj_key = kw.obj,
                   !.enabled_protocols = kw.enabled_protocols]

\* the direct field merge that takes whatever value is passed
merge_direct_overwrite(old_val, new_val) ==
    IF new_val = "omit" THEN old_val ELSE new_val = "true"

\* lines 313-319 for field 'direct': set only when unset/false and new is true
merge_direct(old_val, new_val) ==
    IF ~old_val /\ new_val = "true" THEN TRUE ELSE old_val

\* lines 313-319 for field 'obj': set only when the user has no profile yet
merge_obj_key(u, new_obj) == u.obj_key \/ new_obj

\* lines 321-324 with the labels passed replacing the stored ones
merge_enabled_protocols_replace(old_val, new_val) ==
    IF new_val /= {} THEN new_val ELSE old_val

\* lines 321-324
merge_enabled_protocols(old_val, new_val) ==
    IF new_val /= {} THEN old_val \cup new_val ELSE old_val

\* whether lines 312-324 set changed
merge_changed(u, kw) ==
    \/ ~u.direct /\ kw.direct = "true"
    \/ ~u.obj_key /\ kw.obj
    \/ kw.enabled_protocols /= {}

\* the opt-out test that lets every user through
opted_out_never(id, u, profs, allow_opt_out) == FALSE

\* `user.status and not allow_opt_out` (lines 307, 334, 342)
opted_out(id, u, profs, allow_opt_out) ==
    user_status(id, u, profs) /= NONE /\ ~allow_opt_out

\* reload_profile: the user and the profile store after Protocol.load
\* returned loaded
reload_user(u, loaded) == IF loaded.as1 THEN [u EXCEPT !.obj_key = TRUE] ELSE u

reload_profiles(profs, id, loaded) ==
    IF loaded.as1 THEN [profs EXCEPT ![id] = loaded] ELSE profs

\* lines 345-351: the protocols create_for is invoked for
propagate_targets(cls, uid, u, profs, propagate) ==
    IF propagate /\ user_status(uid, u, profs) = NONE
        THEN {l \in u.enabled_protocols
                       \cup PROTOCOLS(Owner(uid)).DEFAULT_ENABLED_PROTOCOLS :
                 /\ l /= cls
                 /\ PROTOCOLS(l).HAS_COPIES
                 /\ ~has_copy(uid, u, l)
                 /\ is_enabled(uid, u, profs, l, FALSE)}
        ELSE {}

\* lines 371-375 with the put swallowing its AssertionError
user_put_swallowed(uid) == FALSE

\* lines 371-375: user.put() raises AssertionError for an id the subclass's
\* _pre_put_hook rejects, and the except clause calls flask_util.error, which
\* raises an HTTP 400 exception: the return of line 377 is not reached
user_put_raises(uid) == ~ValidId(uid)

\* lines 345-377: propagate, generate keys, put; the result "error" is the
\* HTTP exception raised out of get_or_create
finish(cls, uid, u, profs, existing, propagate, fail, uri, lk) ==
    LET targets == propagate_targets(cls, uid, u, profs, propagate)
        u1 == IF targets = {} THEN u
              ELSE IF fail
                  THEN [u EXCEPT !.enabled_protocols = @ \ targets]
              ELSE [u EXCEPT !.copies = @ \cup {Target(l, uri) : l \in targets}]
        mc1 == IF targets /= {} /\ ~fail
                  THEN [lk.mc EXCEPT ![uri] = uid] ELSE lk.mc
        u2 == IF ~existing /\ cls /= "activitypub"
                  THEN [u1 EXCEPT !.mod = TRUE] ELSE u1
    IN  IF ~user_put_raises(uid)
            THEN [result |-> uid, existing |-> existing,
                  users |-> [users EXCEPT ![uid] = u2], profiles |-> profs,
                  lru |-> lk.lru, mc |-> mc1, queried |-> lk.queried,
                  reloaded |-> FALSE, attempted |-> targets]
            ELSE [result |-> "error", existing |-> existing,
                  users |-> users, profiles |-> profiles,
                  lru |-> lk.lru, mc |-> mc1, queried |-> lk.queried,
                  reloaded |-> FALSE, attempted |-> targets]

\* the transaction body _run (lines 300-377) and what it leaves behind
get_or_create(id, propagate, allow_opt_out, reload, kw, loaded, fail, uri) ==
    LET cls == Owner(id)
        found == get_by_id(users, profiles, id, TRUE)
        nolk == [key |-> NONE, lru |-> lru_user, mc |-> mc_user, queried |-> 0]
        none(profs, lk, reloaded) ==
            [result |-> NONE, existing |-> FALSE, users |-> users,
             profiles |-> profs, lru |-> lk.lru, mc |-> lk.mc,
             queried |-> lk.queried, reloaded |-> reloaded, attempted |-> {}]
    IN  IF found /= NONE
        THEN
            LET u1 == IF reload THEN reload_user(users[found], loaded)
                      ELSE users[found]
                profs1 == IF reload THEN reload_profiles(profiles, found, loaded)
                          ELSE profiles
                u2 == [u1 EXCEPT
                         !.direct = merge_direct(@, kw.direct),
                         !.obj_key = merge_obj_key(u1, kw.obj),
                         !.enabled_protocols =
                             merge_enabled_protocols(@, kw.enabled_protocols)]
            IN  IF opted_out(found, u1, profs1, allow_opt_out)
                    THEN none(profs1, nolk, reload)
                ELSE IF ~propagate
                    THEN [result |-> found, existing |-> TRUE,
                          users |-> IF merge_changed(u1, kw)
                                       THEN [users EXCEPT ![found] = u2]
                                       ELSE users,
                          profiles |-> profs1, lru |-> lru_user,
                          mc |-> mc_user, queried |-> 0, reloaded |-> reload,
                          attempted |-> {}]
                ELSE [finish(cls, found, u2, profs1, TRUE, propagate, fail,
                             uri, nolk) EXCEPT !.reloaded = reload]
        ELSE
            LET lk == get_original_user_key(users, lru_user, mc_user, id)
                u1 == reload_user(NewUser(kw), loaded)
                profs1 == reload_profiles(profiles, id, loaded)
            IN  IF lk.key /= NONE
                THEN IF opted_out(lk.key, users[lk.key], profiles, allow_opt_out)
                        THEN none(profiles, lk, FALSE)
                     ELSE [none(profiles, lk, FALSE) EXCEPT !.result = lk.key]
                ELSE IF opted_out(id, u1, profs1, allow_opt_out)
                    THEN none(profs1, lk, TRUE)
                ELSE [finish(cls, id, u1, profs1, FALSE, propagate, fail, uri,
                             lk) EXCEPT !.reloaded = TRUE]

(***************************************************************************)
(* SpecUser: calls of User.get_by_id, User.get_or_create, User.add and     *)
(* get_original_user_key against one datastore, in one process.  The       *)
(* datastore outlives the process: it starts as one of the stores below,   *)
(* each of which earlier calls can have built, and the caches start empty. *)
(***************************************************************************)
MaxOps == 2

\* no call yet
Idle == [phase |-> "idle"]

ObjectsIdle == objects = <<>>

FollowersIdle == followers = <<>>

EnableIdle == procs = <<>> /\ version = 0 /\ dms = <<>>

RegistryIdle == registry = <<>>

CachesIdle ==
    /\ profiles = <<>>
    /\ lru_user = <<>>
    /\ mc_user = <<>>
    /\ appended = <<>>

UsersIdle == users = <<>> /\ CachesIdle

CallsIdle == call = <<>> /\ nops = 0

GoodProfile ==
    [as1 |-> TRUE, image |-> TRUE, displayName |-> "real",
     published |-> "old", summary |-> {}, nameMarkers |-> {}, public |-> TRUE]

NoBridgeProfile == [GoodProfile EXCEPT !.summary = {"#nobridge"}]

\* w1: absent or stored, direct or not
SeedW1 ==
    {NoUser} \cup {[NoUser EXCEPT !.exists = TRUE, !.mod = TRUE, !.direct = d] :
                      d \in BOOLEAN}

\* a1: absent or stored, manually opted out or not
SeedA1 ==
    {NoUser} \cup {[NoUser EXCEPT !.exists = TRUE, !.obj_key = TRUE,
                                  !.manual_opt_out = m] : m \in BOOLEAN}

\* how w1 points at others: not at all, by use_instead => a1, or by a copy d1
SeedLinks == {"none", "use_instead", "copy"}

SeedStore(w, a, link) ==
    [id \in UserIds |->
        IF id = "w1"
            THEN IF link = "use_instead" THEN [w EXCEPT !.use_instead = "a1"]
                 ELSE IF link = "copy"
                     THEN [w EXCEPT !.copies = {Target("atproto", "d1")}]
                 ELSE w
        ELSE IF id = "a1" THEN a
        ELSE NoUser]

UsersInit ==
    /\ \E w \in SeedW1, a \in SeedA1, link \in SeedLinks :
          /\ link /= "none" => w.exists
          /\ link = "use_instead" => a.exists
          /\ users = SeedStore(w, a, link)
    /\ \E p \in {NoProfile, GoodProfile, NoBridgeProfile} :
          /\ ~users["a1"].exists => p = NoProfile
          /\ profiles = [id \in UserIds |-> IF id = "a1" THEN p ELSE NoProfile]
    /\ lru_user = [id \in UserIds |-> "unset"]
    /\ mc_user = [id \in UserIds |-> "unset"]
    /\ appended = {}
    /\ call = Idle
    /\ nops = 0

\* ids no stored user has as its key or among its copies
FreshUris(label) ==
    {d \in UserIds : /\ Owner(d) = label
                     /\ ~users[d].exists
                     /\ \A i \in UserIds : \A c \in users[i].copies : c.uri /= d}

\* the least id, in key order, that create_for can mint for a new copy
FreshUri(label) ==
    IF FreshUris(label) = {} THEN NONE
    ELSE UserIdOrder[CHOOSE i \in 1..Len(UserIdOrder) :
                        /\ UserIdOrder[i] \in FreshUris(label)
                        /\ \A j \in 1..Len(UserIdOrder) :
                              UserIdOrder[j] \in FreshUris(label) => i <= j]

\* whether get_or_create(id, reload=...) reaches a reload_profile call
WillReload(id, reload) ==
    IF get_by_id(users, profiles, id, TRUE) /= NONE THEN reload
    ELSE get_original_user_key(users, lru_user, mc_user, id).key = NONE

GetOrCreateCalls ==
    [op : {"get_or_create"}, id : CallIds, propagate : BOOLEAN,
     allow_opt_out : BOOLEAN, reload : BOOLEAN, kw : KwArgs]

GetByIdCalls == [op : {"get_by_id"}, id : CallIds, allow_opt_out : BOOLEAN]

AddCalls == [op : {"add"}, id : CallIds, uri : UserIds]

LookupCalls == [op : {"get_original_user_key"}, id : UserIds]

UserCalls == GetOrCreateCalls \cup GetByIdCalls \cup AddCalls \cup LookupCalls

CacheCalls == AddCalls \cup LookupCalls

\* the program calls one of the operations reqs: the arguments are fixed
\* here, the operation itself runs in the step that follows
Call(reqs, bound) ==
    /\ nops < bound
    /\ call.phase /= "pending"
    /\ \E req \in reqs :
          /\ req.op = "add" =>
                /\ users[req.id].exists
                /\ PROTOCOLS(Owner(req.uri)).HAS_COPIES
                /\ req.uri \in FreshUris(Owner(req.uri))
                /\ ~has_copy(req.id, users[req.id], Owner(req.uri))
          /\ call' = [phase |-> "pending", req |-> req, first |-> Absent]
    /\ nops' = nops + 1
    /\ UNCHANGED <<st, users, profiles, lru_user, mc_user, appended, objects,
                   followers, procs, version, dms, registry>>

\* cls.get_or_create(id, ...) runs, cls the class that owns id
User_get_or_create ==
    /\ call.phase = "pending"
    /\ call.req.op = "get_or_create"
    /\ LET r == call.req
       IN \E loaded \in IF WillReload(r.id, r.reload)
                            THEN SmallProfiles \cup {NoProfile}
                            ELSE {NoProfile} :
           \E fail \in IF get_or_create(r.id, r.propagate, r.allow_opt_out,
                                         r.reload, r.kw, loaded, TRUE,
                                         NONE).attempted = {}
                           THEN {FALSE}
                        ELSE IF FreshUri("atproto") = NONE THEN {TRUE}
                        ELSE BOOLEAN :
             \E out \in {get_or_create(r.id, r.propagate, r.allow_opt_out,
                                        r.reload, r.kw, loaded, fail,
                                        FreshUri("atproto"))} :
               /\ users' = out.users
               /\ profiles' = out.profiles
               /\ lru_user' = out.lru
               /\ mc_user' = out.mc
               /\ call' = [phase |-> "done", req |-> r, first |-> call.first,
                           res |-> [result |-> out.result,
                                    existing |-> out.existing,
                                    loaded |-> loaded, fail |-> fail,
                                    attempted |-> out.attempted,
                                    queried |-> out.queried]]
    /\ UNCHANGED <<st, appended, nops, objects, followers,
                   procs, version, dms, registry>>

\* cls.get_by_id(id, allow_opt_out) runs
User_get_by_id ==
    /\ call.phase = "pending"
    /\ call.req.op = "get_by_id"
    /\ call' = [phase |-> "done", req |-> call.req, first |-> call.first,
                res |-> [result |-> get_by_id(users, profiles, call.req.id,
                                              call.req.allow_opt_out)]]
    /\ UNCHANGED <<st, users, profiles, lru_user, mc_user, appended, nops,
                   objects, followers, procs, version, dms, registry>>

\* the memcache entries after User.add(prop, val): lines 260-262
add_memcache(mc, prop, val, key) ==
    IF prop = "copies" THEN [mc EXCEPT ![val.uri] = key] ELSE mc

\* the property after User.add(prop, val): lines 257-258
add_value(values, val) == values \cup {val}

\* user.add('copies', Target(label, uri)) runs on the user just loaded, and
\* the user is put
User_add ==
    /\ call.phase = "pending"
    /\ call.req.op = "add"
    /\ LET id == call.req.id
           val == Target(Owner(call.req.uri), call.req.uri)
       IN  /\ users' = [users EXCEPT ![id].copies = add_value(@, val)]
           /\ mc_user' = add_memcache(mc_user, "copies", val, id)
           /\ appended' = appended \cup {val.uri}
    /\ call' = [phase |-> "done", req |-> call.req, first |-> call.first, res |-> [result |-> NONE]]
    /\ UNCHANGED <<st, profiles, lru_user, nops, objects, followers,
                   procs, version, dms, registry>>

\* get_original_user_key(copy_id) runs
Lookup_original_user ==
    /\ call.phase = "pending"
    /\ call.req.op = "get_original_user_key"
    /\ \E lk \in {get_original_user_key(users, lru_user, mc_user,
                                         call.req.id)} :
          /\ lru_user' = lk.lru
          /\ mc_user' = lk.mc
          /\ call' = [phase |-> "done", req |-> call.req, first |-> call.first,
                      res |-> [result |-> lk.key, queried |-> lk.queried]]
    /\ UNCHANGED <<st, users, profiles, appended, nops, objects, followers,
                   procs, version, dms, registry>>

UsersNext ==
    \/ Call(UserCalls, MaxOps)
    \/ User_get_or_create
    \/ User_get_by_id
    \/ User_add
    \/ Lookup_original_user

(***************************************************************************)
(* SpecCache: User.add('copies', ...) and get_original_user_key calls only, *)
(* in one process, over the same stores.                                   *)
(***************************************************************************)
MaxCacheOps == 3

CacheNext ==
    \/ Call(CacheCalls, MaxCacheOps)
    \/ User_add
    \/ Lookup_original_user

(***************************************************************************)
(* Follower.  An edge is keyed by an id the datastore allocates when the   *)
(* entity is first put; the model keeps that id, the from_ and to keys     *)
(* and the status.  The kind of a user key is its class, which Owner       *)
(* gives.                                                                  *)
(***************************************************************************)
FollowIds == {"w1", "a1", "d1", "d2"}

\* the keyword arguments Follower.get_or_create is called with: none, or a
\* status
FollowKwArgs == {"omit", "active", "inactive"}

\* Follower._pre_put_hook that accepts every edge
pre_put_hook_any(f) == TRUE

\* Follower._pre_put_hook: whether the assertion passes
Follower_pre_put_hook(f) == Owner(f.from_) /= Owner(f.to)

\* Follower.query(from_ == from_.key, to == to.key).get()
query_follower(fs, from_, to) == {f \in fs : f.from_ = from_ /\ f.to = to}

\* Follower(from_=..., to=..., **kwargs), status defaulting to active, under
\* the next id the datastore allocates
NewFollower(fs, from_, to, kw) ==
    [id |-> Cardinality(fs) + 1, from_ |-> from_, to |-> to,
     status |-> IF kw = "omit" THEN "active" ELSE kw]

\* line 1452 with the update made whether or not kwargs is empty
kwargs_given_always(kw) == TRUE

\* line 1452, elif kwargs: whether any keyword argument was passed
kwargs_given(kw) == kw /= "omit"

\* lines 1455-1456: setattr for each keyword argument passed
Follower_setattrs(f, kw) == IF kw = "omit" THEN f ELSE [f EXCEPT !.status = kw]

\* the body of Follower.get_or_create after its query returned found (lines
\* 1448-1458): the result, whether put was called, and the edges stored once
\* its puts are applied to fs; a failed assertion in put aborts it
Follower_get_or_create_body(fs, found, from_, to, kw) ==
    LET new == NewFollower(fs, from_, to, kw)
        failed == [result |-> "AssertionError", put |-> TRUE, followers |-> fs]
    IN  IF found = {}
            THEN IF Follower_pre_put_hook(new)
                    THEN [result |-> "ok", put |-> TRUE,
                          followers |-> fs \cup {new}]
                 ELSE failed
        ELSE IF kwargs_given(kw)
            THEN LET old == CHOOSE f \in found : TRUE
                     upd == Follower_setattrs(old, kw)
                 IN  IF Follower_pre_put_hook(upd)
                        THEN [result |-> "ok", put |-> TRUE,
                              followers |-> (fs \ {old}) \cup {upd}]
                     ELSE failed
        ELSE [result |-> "ok", put |-> FALSE, followers |-> fs]

\* the transaction Follower.get_or_create run alone
Follower_get_or_create_txn(fs, from_, to, kw) ==
    Follower_get_or_create_body(fs, query_follower(fs, from_, to), from_, to,
                                kw)

FollowCalls ==
    [op : {"Follower.get_or_create"}, from_ : FollowIds, to : FollowIds,
     kw : FollowKwArgs]

MaxFollowOps == 3

\* Follower.get_or_create(from_=..., to=..., **kwargs) runs
Follower_get_or_create ==
    /\ call.phase = "pending"
    /\ call.req.op = "Follower.get_or_create"
    /\ \E out \in {Follower_get_or_create_txn(followers, call.req.from_,
                                                call.req.to, call.req.kw)} :
          /\ followers' = out.followers
          /\ call' = [phase |-> "done", req |-> call.req, first |-> call.first,
                      res |-> [result |-> out.result, put |-> out.put]]
    /\ UNCHANGED <<st, users, profiles, lru_user, mc_user, appended, nops,
                   objects, procs, version, dms, registry>>

FollowersInit ==
    /\ followers = {}
    /\ call = Idle
    /\ nops = 0

FollowersNext ==
    \/ Call(FollowCalls, MaxFollowOps)
    \/ Follower_get_or_create

(***************************************************************************)
(* Object.  The content properties hold format-tagged values: our_as1 an   *)
(* AS1 object, as2 an ActivityStreams 2 object, mf2 a microformats2 item.  *)
(* Absent is a property that is None.  Actor ids come in three forms: the  *)
(* id proper, an alternate spelling of it, and the id of the actor's       *)
(* profile object.                                                         *)
(***************************************************************************)
ObjIds == {"n1", "alice"}

\* the protocol whose owns_id claims the object id
ObjOwner(id) == IF id = "n1" THEN "web" ELSE "activitypub"

Authors == {"alice", "alice.profile", "bob"}

AuthedAs == {NONE, "alice", "alice.alt", "bob"}

Texts == {"t1", "t2"}

AS1Values ==
    [objectType : {"note"}, author : Authors, actor : {NONE}, content : Texts,
     inReplyTo : {NONE, "r1", "r2"}]
    \cup [objectType : {"activity"}, author : {NONE}, actor : Authors,
           content : {"t1"}, inReplyTo : {NONE}]

AS2Values ==
    [context : {TRUE}, type : {"Note"}, attributedTo : Authors, actor : {NONE},
     content : Texts]
    \cup [context : {TRUE}, type : {"Create"}, attributedTo : {NONE},
           actor : Authors, content : {"t1"}]

MF2Values == [type : {"h-entry"}, author : Authors, content : Texts]

\* ids.normalize_user_id(id=..., proto=...)
normalize_user_id(id, proto) ==
    CASE id = "alice.alt" -> "alice"
      [] OTHER -> id

\* ids.profile_id(id=..., proto=...)
profile_id(id, proto) ==
    CASE id \in {"alice", "alice.alt"} -> "alice.profile"
      [] OTHER -> id

\* A key with no entity behind it
NoObject ==
    [exists |-> FALSE, source_protocol |-> NONE, our_as1 |-> Absent,
     as2 |-> Absent, mf2 |-> Absent, activity_label |-> FALSE, copies |-> {}]

\* common.unwrap of one id: the id a bridge-subdomain URL wraps
unwrap_id(id) == IF id = "brid.gy/d2" THEN "d2" ELSE id

\* common.unwrap: every id of the structure unwrapped; an embedded object
\* is a record of its own ids
unwrap(v) ==
    [k \in DOMAIN v |->
        IF k \in {"id", "author", "actor", "attributedTo", "inReplyTo"}
            THEN unwrap_id(v[k])
        ELSE IF k = "object"
            THEN [f \in DOMAIN v[k] |->
                    IF f \in {"id", "id2", "author", "inReplyTo"}
                        THEN unwrap_id(v[k][f]) ELSE v[k][f]]
        ELSE v[k]]

\* as2.to_as1: type becomes objectType (or the verb), attributedTo becomes
\* author, @context goes, the other properties keep their names
as2_to_as1(v) ==
    [k \in (DOMAIN v \ {"context", "type", "attributedTo"})
               \cup {"objectType", "author"} |->
        IF k = "objectType"
            THEN IF v.type = "Create" THEN "activity"
                 ELSE IF v.type = "Follow" THEN "follow" ELSE "note"
        ELSE IF k = "author" THEN v.attributedTo
        ELSE v[k]]

\* microformats2.json_to_object(mf2)
mf2_to_as1(v) ==
    [objectType |-> "note", author |-> v.author, actor |-> NONE,
     content |-> v.content]

\* Object.as1: the first populated of our_as1, as2, mf2, converted, with the
\* key id as its id; Absent if none is populated
as1(o, id) ==
    LET with_id(v) ==
            [k \in DOMAIN v \cup {"id"} |->
                IF k \in DOMAIN v THEN v[k] ELSE id]
    IN  IF o.our_as1 /= Absent THEN with_id(o.our_as1)
        ELSE IF o.as2 /= Absent THEN with_id(as2_to_as1(unwrap(o.as2)))
        ELSE IF o.mf2 /= Absent THEN with_id(mf2_to_as1(o.mf2))
        ELSE Absent

\* the entity after self.as1 was read: for our_as1 the value returned is the
\* stored dict itself, to which line 998 adds the key id as its id if it has
\* none; as2 and mf2 are converted into a new object and stay as they are
as1_read(o, id) ==
    IF o.our_as1 /= Absent THEN [o EXCEPT !.our_as1 = as1(o, id)] ELSE o

\* as1.get_ids(obj, field)
get_ids(obj, field) ==
    IF obj = Absent THEN {}
    ELSE IF field = "author" THEN {obj.author} \ {NONE}
    ELSE {obj.actor} \ {NONE}

\* as1.activity_changed that compares every property but inReplyTo
as1_activity_changed_any(before, after, inReplyTo) ==
    \E k \in (DOMAIN before \cup DOMAIN after) \ {"inReplyTo"} :
       k \notin DOMAIN before \/ k \notin DOMAIN after \/ before[k] /= after[k]

\* as1.activity_changed(before, after, inReplyTo=...) of granary: compares
\* objectType, verb, to, content, location and image (here objectType and
\* content), and inReplyTo if asked to; not author, actor or id
as1_activity_changed(before, after, inReplyTo) ==
    LET get(v, k) == IF k \in DOMAIN v THEN v[k] ELSE NONE
    IN  \/ \E k \in {"objectType", "content"} : get(before, k) /= get(after, k)
        \/ inReplyTo /\ get(before, "inReplyTo") /= get(after, "inReplyTo")

\* Object.activity_changed that calls every update a change
activity_changed_always(mine, other_as1) == TRUE

\* Object.activity_changed(other_as1), self.as1 being mine
activity_changed(mine, other_as1) ==
    IF mine /= Absent /\ other_as1 /= Absent
        THEN as1_activity_changed(mine, other_as1, FALSE)
    ELSE (mine /= Absent) /= (other_as1 /= Absent)

\* proto.owns_id(id) for an object id: "True", "False", or NONE when the
\* protocol cannot tell from the id alone; "m1" is an https URL, which could
\* be a web page as well as an ActivityPub object
Object_owns_id(label, id) ==
    IF id = "m1"
        THEN IF label \in {"web", "activitypub"} THEN NONE ELSE "False"
    ELSE IF ObjOwner(id) = label THEN "True"
    ELSE "False"

\* the ownership assertion that passes only for an id the protocol claims
Object_owns_id_ok_claimed(o, id) ==
    \/ o.source_protocol \in {NONE, "ui"}
    \/ Object_owns_id(o.source_protocol, id) = "True"

\* Object._pre_put_hook: whether the ownership assertion passes
Object_owns_id_ok(o, id) ==
    \/ o.source_protocol \in {NONE, "ui"}
    \/ Object_owns_id(o.source_protocol, id) /= "False"

\* the entity as put stores it, after _pre_put_hook read self.as1, set or
\* removed the activity label and stripped @context from as2
Object_pre_put_hook(o, id) ==
    [as1_read(o, id) EXCEPT
       !.activity_label = (as1(o, id) /= Absent
                           /\ as1(o, id).objectType = "activity"),
       !.as2 = IF @ = Absent THEN @ ELSE [@ EXCEPT !.context = FALSE]]

\* the keyword arguments of Object.get_or_create: source_protocol ("omit" or
\* a label) and at most one content property, slot, with its value
ObjProps ==
    [source_protocol : {"omit", "web", "activitypub"}, slot : {"none"},
     value : {Absent}]
    \cup [source_protocol : {"omit", "web", "activitypub"}, slot : {"our_as1"},
           value : AS1Values]
    \cup [source_protocol : {"omit", "web", "activitypub"}, slot : {"as2"},
           value : AS2Values]
    \cup [source_protocol : {"omit", "web", "activitypub"}, slot : {"mf2"},
           value : MF2Values]

\* lines 1085-1101: the outcome of the authorization of a call on obj
authorize(obj, id, authed_as) ==
    LET orig_as1 == as1(obj, id)
        proto == IF obj.source_protocol \in Labels THEN obj.source_protocol
                 ELSE NONE
        owners == {normalize_user_id(owner, proto) :
                      owner \in get_ids(orig_as1, "author")
                                   \cup get_ids(orig_as1, "actor") \cup {id}}
    IN  IF ~obj.exists \/ orig_as1 = Absent THEN "ok"
        ELSE IF authed_as = NONE THEN "AssertionError"
        ELSE IF proto = NONE THEN "AssertionError"
        ELSE IF /\ normalize_user_id(authed_as, proto) \notin owners
                /\ profile_id(authed_as, proto) \notin owners
            THEN "forbidden"
        ELSE "ok"

\* lines 1106-1111: clear, then populate the properties passed
populate(obj, props) ==
    LET cleared == IF props.slot \in {"as2", "mf2"}
                      THEN [obj EXCEPT !.our_as1 = Absent] ELSE obj
    IN  [cleared EXCEPT
           !.source_protocol = IF props.source_protocol = "omit" THEN @
                               ELSE props.source_protocol,
           !.our_as1 = IF props.slot = "our_as1" THEN props.value ELSE @,
           !.as2 = IF props.slot = "as2" THEN props.value ELSE @,
           !.mf2 = IF props.slot = "mf2" THEN props.value ELSE @]

\* the transaction Object.get_or_create: the outcome, new and changed of the
\* Object returned, and the store afterwards; an exception aborts it
Object_get_or_create_txn(objs, id, authed_as, props) ==
    LET obj == objs[id]
        auth == authorize(obj, id, authed_as)
        populated == populate(IF obj.exists THEN obj
                              ELSE [NoObject EXCEPT !.exists = TRUE], props)
        changed == IF ~obj.exists THEN "none"
                   ELSE IF activity_changed(as1(populated, id), as1(obj, id))
                       THEN "true"
                   ELSE "false"
        failed(e) == [result |-> e, existed |-> obj.exists, new |-> ~obj.exists,
                      changed |-> "none", orig_as1 |-> as1(obj, id),
                      objects |-> objs]
    IN  IF auth /= "ok" THEN failed(auth)
        ELSE IF ~Object_owns_id_ok(populated, id) THEN failed("AssertionError")
        ELSE [result |-> "ok", existed |-> obj.exists, new |-> ~obj.exists,
              changed |-> changed, orig_as1 |-> as1(obj, id),
              objects |-> [objs EXCEPT
                             ![id] = Object_pre_put_hook(populated, id)]]

(***************************************************************************)
(* SpecObject: calls of Object.get_or_create against one datastore, each   *)
(* either with new arguments or with the arguments of the call before.     *)
(***************************************************************************)
MaxObjOps == 2

ObjCalls ==
    [op : {"Object.get_or_create"}, id : ObjIds, authed_as : AuthedAs,
     props : ObjProps]

\* the program repeats the call that has just returned, same arguments
CallAgain(bound) ==
    /\ nops < bound
    /\ call.phase = "done"
    /\ call.first = Absent
    /\ call' = [phase |-> "pending", req |-> call.req, first |-> call.res]
    /\ nops' = nops + 1
    /\ UNCHANGED <<st, users, profiles, lru_user, mc_user, appended, objects,
                   followers, procs, version, dms, registry>>

\* Object.get_or_create(id, authed_as=..., **props) runs
Object_get_or_create ==
    /\ call.phase = "pending"
    /\ call.req.op = "Object.get_or_create"
    /\ \E out \in {Object_get_or_create_txn(objects, call.req.id,
                                              call.req.authed_as,
                                              call.req.props)} :
          /\ objects' = out.objects
          /\ call' = [phase |-> "done", req |-> call.req, first |-> call.first,
                      res |-> [result |-> out.result, existed |-> out.existed,
                               new |-> out.new, changed |-> out.changed,
                               orig_as1 |-> out.orig_as1]]
    /\ UNCHANGED <<st, users, profiles, lru_user, mc_user, appended, nops,
                   followers, procs, version, dms, registry>>

ObjectsInit ==
    /\ objects = [id \in ObjIds |-> NoObject]
    /\ call = Idle
    /\ nops = 0

ObjectsNext ==
    \/ Call(ObjCalls, MaxObjOps)
    \/ CallAgain(MaxObjOps)
    \/ Object_get_or_create

(***************************************************************************)
(* SpecEnable: processes that each hold their own loaded instance of the   *)
(* user "w1" and call enable_protocol and disable_protocol on it.  A       *)
(* transaction reads the stored user, runs its body on what it read and    *)
(* commits; a commit that finds the user written since the read runs the   *)
(* body again.                                                             *)
(***************************************************************************)
Procs == {"p1", "p2"}

EnableLabels == {"atproto", "activitypub"}

MaxCalls == 2

EnableUser == "w1"

\* the id of the copy create_for makes for the user
CopyUri == "d1"

\* to_proto.create_for(self): the stored user afterwards
create_for(u, label) ==
    IF \E c \in u.copies : c.protocol = label THEN u
    ELSE [u EXCEPT !.copies = @ \cup {Target(label, CopyUri)}]

\* the user a transaction body works on when it takes the in-memory instance
txn_get_instance(p) ==
    [users[EnableUser] EXCEPT !.enabled_protocols = procs[p].self.enabled_protocols,
                              !.copies = procs[p].self.copies]

\* user = self.key.get() in enable() and disable(): the stored user
txn_get(p) == users[EnableUser]

\* the body of enable(), lines 571-579, on the user read
enable_body(user, label) ==
    IF label \notin user.enabled_protocols
        THEN [user EXCEPT !.enabled_protocols = @ \cup {label},
                          !.sent_dms = @ \cup {DM(label, "welcome")}]
    ELSE user

\* the body of disable(), lines 605-607, on the user read
disable_body(user, label) == [user EXCEPT !.enabled_protocols = @ \ {label}]

NoCall == [l \in EnableLabels |-> "none"]

EnableInit ==
    /\ users = [id \in {EnableUser} |->
                   [NoUser EXCEPT !.exists = TRUE, !.mod = TRUE]]
    /\ procs = [p \in Procs |->
                   [pc |-> "idle", op |-> "none", label |-> NONE,
                    self |-> [enabled_protocols |-> {}, copies |-> {}],
                    user |-> Absent, puts |-> FALSE, read_version |-> 0,
                    added |-> FALSE, calls |-> 0, last |-> NoCall,
                    enabled |-> {}, retried |-> FALSE]]
    /\ version = 0
    /\ dms = [l \in EnableLabels |-> 0]

\* what the calls of enable_protocol and disable_protocol leave alone
EnableOthers ==
    UNCHANGED <<st, profiles, lru_user, mc_user, appended, call, nops,
                objects, followers, registry>>

\* enable_protocol(to_proto) up to the transaction: lines 562-567
enable_protocol_start(p) ==
    /\ procs[p].pc = "idle"
    /\ procs[p].calls < MaxCalls
    /\ \E label \in EnableLabels :
          /\ procs' = [procs EXCEPT ![p].pc = "txn", ![p].op = "enable",
                                    ![p].label = label, ![p].added = FALSE]
          /\ IF label \in COPIES_PROTOCOLS
                   /\ create_for(users[EnableUser], label) /= users[EnableUser]
                THEN /\ users' = [users EXCEPT
                                    ![EnableUser] = create_for(@, label)]
                     /\ version' = version + 1
                ELSE UNCHANGED <<users, version>>
    /\ UNCHANGED dms
    /\ EnableOthers

\* disable_protocol(to_proto) up to the transaction
disable_protocol_start(p) ==
    /\ procs[p].pc = "idle"
    /\ procs[p].calls < MaxCalls
    /\ \E label \in EnableLabels :
          procs' = [procs EXCEPT ![p].pc = "txn", ![p].op = "disable",
                                 ![p].label = label]
    /\ UNCHANGED <<users, version, dms>>
    /\ EnableOthers

\* the transaction body runs: enable() or disable()
transaction_run(p) ==
    /\ procs[p].pc = "txn"
    /\ LET user == txn_get(p)
           label == procs[p].label
       IN  procs' = [procs EXCEPT
                       ![p].pc = "commit",
                       ![p].read_version = version,
                       ![p].user = IF procs[p].op = "enable"
                                      THEN enable_body(user, label)
                                   ELSE disable_body(user, label),
                       ![p].puts = (procs[p].op = "disable"
                                    \/ label \notin user.enabled_protocols),
                       ![p].added = (@ \/ (procs[p].op = "enable"
                                           /\ label \notin
                                                user.enabled_protocols))]
    /\ UNCHANGED <<users, version, dms>>
    /\ EnableOthers

\* the transaction commits: nothing it read was written since
transaction_commit(p) ==
    /\ procs[p].pc = "commit"
    /\ ~procs[p].puts \/ procs[p].read_version = version
    /\ procs' = [procs EXCEPT ![p].pc = "after"]
    /\ IF procs[p].puts
          THEN /\ users' = [users EXCEPT ![EnableUser] = procs[p].user]
               /\ version' = version + 1
          ELSE UNCHANGED <<users, version>>
    /\ UNCHANGED dms
    /\ EnableOthers

\* the commit conflicts with a write since the read: the body runs again
transaction_retry(p) ==
    /\ procs[p].pc = "commit"
    /\ procs[p].puts
    /\ procs[p].read_version /= version
    /\ procs' = [procs EXCEPT ![p].pc = "txn", ![p].retried = TRUE]
    /\ UNCHANGED <<users, version, dms>>
    /\ EnableOthers

\* enable_protocol after the transaction: lines 581-595
enable_protocol_finish(p) ==
    /\ procs[p].pc = "after"
    /\ procs[p].op = "enable"
    /\ procs' = [procs EXCEPT
                    ![p].pc = "idle",
                    ![p].self = [enabled_protocols |->
                                     procs[p].user.enabled_protocols,
                                 copies |-> procs[p].user.copies],
                    ![p].calls = @ + 1,
                    ![p].last[procs[p].label] = "enable",
                    ![p].enabled = @ \cup {procs[p].label}]
    /\ dms' = IF procs[p].added THEN [dms EXCEPT ![procs[p].label] = @ + 1]
              ELSE dms
    /\ UNCHANGED <<users, version>>
    /\ EnableOthers

\* disable_protocol after the transaction: lines 610-613
disable_protocol_finish(p) ==
    /\ procs[p].pc = "after"
    /\ procs[p].op = "disable"
    /\ procs' = [procs EXCEPT
                    ![p].pc = "idle",
                    ![p].self.enabled_protocols = @ \ {procs[p].label},
                    ![p].calls = @ + 1,
                    ![p].last[procs[p].label] = "disable"]
    /\ UNCHANGED <<users, version, dms>>
    /\ EnableOthers

EnableNext ==
    \E p \in Procs :
       \/ enable_protocol_start(p)
       \/ disable_protocol_start(p)
       \/ transaction_run(p)
       \/ transaction_commit(p)
       \/ transaction_retry(p)
       \/ enable_protocol_finish(p)
       \/ disable_protocol_finish(p)

(***************************************************************************)
(* fetch_page: one page of a query over stored entities, by timestamp.     *)
(***************************************************************************)
\* the page size of the model; the program's PAGE_SIZE is 20 (line 69)
PAGE_SIZE == 2

\* the entities the query matches, in key order
PageIds == {"o1", "o2", "o3"}

PageIdOrder == <<"o1", "o2", "o3">>

\* naive UTC datetimes, in hours
Times == 1..3

\* a stored entity carries created (auto_now_add) and updated (auto_now)
PageEntities ==
    {[exists |-> FALSE, created |-> 0, updated |-> 0]}
    \cup {e \in [exists : {TRUE}, created : Times, updated : Times] :
            e.created <= e.updated}

\* request.values.get(param): missing or empty, not ISO8601, or an ISO8601
\* timestamp, naive or with the offset +01:00
ParamValues ==
    {[kind |-> "empty", t |-> 0, tz |-> "naive"],
     [kind |-> "bad", t |-> 0, tz |-> "naive"]}
    \cup [kind : {"iso"}, t : Times, tz : {"naive", "plus1"}]

\* datetime.isoformat() of a naive datetime
isoformat(dt) == [kind |-> "iso", t |-> dt, tz |-> "naive"]

\* get_paging_param: None, the naive UTC datetime, or the error raised
get_paging_param(val) ==
    IF val.kind = "empty" THEN Absent
    ELSE IF val.kind = "bad" THEN [error |-> TRUE]
    ELSE [dt |-> IF val.tz = "plus1" THEN val.t - 1 ELSE val.t]

\* the value of the paging property by of a stored entity
by_value(objs, id, by) ==
    IF by = "created" THEN objs[id].created ELSE objs[id].updated

\* query.order(by) or query.order(-by) over the entities ids: the entity that
\* comes first, ties in key order
RECURSIVE query_order(_, _, _, _)
query_order(objs, ids, by, descending) ==
    IF ids = {} THEN <<>>
    ELSE LET key_pos(id) ==
                 CHOOSE i \in 1..Len(PageIdOrder) : PageIdOrder[i] = id
             precedes(a, b) ==
                 \/ /\ ~descending
                    /\ by_value(objs, a, by) < by_value(objs, b, by)
                 \/ /\ descending
                    /\ by_value(objs, a, by) > by_value(objs, b, by)
                 \/ /\ by_value(objs, a, by) = by_value(objs, b, by)
                    /\ key_pos(a) < key_pos(b)
             head == CHOOSE a \in ids : \A b \in ids \ {a} : precedes(a, b)
         IN  <<head>> \o query_order(objs, ids \ {head}, by, descending)

\* sorted(..., key=lambda r: r.updated, reverse=True): a stable sort
RECURSIVE sorted_updated_reverse(_, _)
sorted_updated_reverse(objs, s) ==
    IF s = <<>> THEN <<>>
    ELSE LET n == Len(s)
             i == CHOOSE i \in 1..n : \A j \in (1..n) \ {i} :
                     \/ objs[s[i]].updated > objs[s[j]].updated
                     \/ /\ objs[s[i]].updated = objs[s[j]].updated
                        /\ i < j
         IN  <<s[i]>> \o sorted_updated_reverse(
                            objs, SubSeq(s, 1, i - 1) \o SubSeq(s, i + 1, n))

\* new_before that is the oldest result's timestamp whenever there is more
new_before_oldest(objs, before, after, results, has_next) ==
    IF has_next THEN isoformat(objs[results[Len(results)]].updated)
    ELSE Absent

\* lines 1682-1687
new_before(objs, before, after, results, has_next) ==
    IF after /= Absent THEN isoformat(after.dt)
    ELSE IF has_next THEN isoformat(objs[results[Len(results)]].updated)
    ELSE Absent

\* lines 1675-1680
new_after(objs, before, after, results, has_next) ==
    IF before /= Absent THEN isoformat(before.dt)
    ELSE IF has_next /\ after /= Absent THEN isoformat(objs[results[1]].updated)
    ELSE Absent

\* fetch_page(query, model_class, by) for the request parameters before and
\* after; more is what probably_has_next answers once the query is exhausted
fetch_page(objs, req, more) ==
    LET before == get_paging_param(req.before)
        after == get_paging_param(req.after)
        stored == {id \in PageIds : objs[id].exists}
        matching ==
            IF after /= Absent
                THEN {id \in stored : by_value(objs, id, req.by) >= after.dt}
            ELSE IF before /= Absent
                THEN {id \in stored : by_value(objs, id, req.by) < before.dt}
            ELSE stored
        query == query_order(objs, matching, req.by, after = Absent)
        page == SubSeq(query, 1,
                       IF Len(query) < PAGE_SIZE THEN Len(query) ELSE PAGE_SIZE)
        results == sorted_updated_reverse(objs, page)
        has_next == results /= <<>> /\ (Len(query) > PAGE_SIZE \/ more)
        failed == [result |-> "error", results |-> <<>>, new_before |-> Absent,
                   new_after |-> Absent]
    IN  IF before = [error |-> TRUE] \/ after = [error |-> TRUE] THEN failed
        ELSE IF before /= Absent /\ after /= Absent THEN failed
        ELSE [result |-> "ok", results |-> results,
              new_before |-> new_before(objs, before, after, results, has_next),
              new_after |-> new_after(objs, before, after, results, has_next)]

(***************************************************************************)
(* SpecPage: requests for a page of the stored entities.                   *)
(***************************************************************************)
MaxPageOps == 2

PageCalls ==
    [op : {"fetch_page"}, before : ParamValues, after : ParamValues,
     by : {"created", "updated"}]

\* fetch_page runs for the pending request
Fetch_page ==
    /\ call.phase = "pending"
    /\ call.req.op = "fetch_page"
    /\ \E more \in BOOLEAN :
          call' = [phase |-> "done", req |-> call.req, first |-> call.first,
                   res |-> fetch_page(objects, call.req, more)]
    /\ UNCHANGED <<st, users, profiles, lru_user, mc_user, appended, nops,
                   objects, followers, procs, version, dms, registry>>

InitPage ==
    /\ objects \in [PageIds -> PageEntities]
    /\ call = Idle
    /\ nops = 0
    /\ StatusIdle /\ UsersIdle /\ FollowersIdle /\ EnableIdle /\ RegistryIdle

PageNext ==
    \/ Call(PageCalls, MaxPageOps)
    \/ Fetch_page


(***************************************************************************)
(* Object.resolve_ids and Object.normalize_ids.  The ids: "a1" is an       *)
(* ActivityPub user and "d1" the id of its ATProto copy; "a1/p" is an      *)
(* ActivityPub object and "d1/p" the id of its ATProto copy; "brid.gy/d2"  *)
(* is a bridge-subdomain URL that wraps "d2"; "bsky.app/d2" and            *)
(* "bsky.app/d2/p" are URLs that ATProto translates to "d2" and "d2/p";    *)
(* "x" is an id of no protocol.  The object property of a canonical form   *)
(* is a record: kind "none" (absent), "str" (an id), "dict" (an object     *)
(* with an id, maybe an author, an inReplyTo and, if rest, more) or "list" *)
(* (the ids id and id2).                                                   *)
(***************************************************************************)
ResolveIds ==
    {"a1", "d1", "d2", "a1/p", "d1/p", "d2/p", "brid.gy/d2", "bsky.app/d2",
     "bsky.app/d2/p", "x"}

NoInner ==
    [kind |-> "none", id |-> NONE, id2 |-> NONE, author |-> NONE,
     inReplyTo |-> NONE, rest |-> FALSE]

\* as1.get_object(obj): the object property as one object, the first of a
\* list, {} if there is none
get_object(obj) ==
    IF obj.object.kind = "none" THEN NoInner
    ELSE IF obj.object.kind = "dict" THEN obj.object
    ELSE [NoInner EXCEPT !.kind = "dict", !.id = obj.object.id]

\* as1.get_objects(obj): the object property as a list of objects
get_objects(obj) ==
    IF obj.object.kind = "none" THEN <<>>
    ELSE IF obj.object.kind = "dict" THEN <<obj.object>>
    ELSE IF obj.object.kind = "str"
        THEN <<[NoInner EXCEPT !.kind = "dict", !.id = obj.object.id]>>
    ELSE <<[NoInner EXCEPT !.kind = "dict", !.id = obj.object.id],
           [NoInner EXCEPT !.kind = "dict", !.id = obj.object.id2]>>

\* util.trim_nulls(val).keys() > {'id'}
more_than_id(val) ==
    val.author /= NONE \/ val.inReplyTo /= NONE \/ val.rest

\* get_original_object_key(copy_id): the stored Object with that copy
get_original_object_key(objs, copy_id) ==
    LET hits == {i \in DOMAIN objs :
                    objs[i].exists /\ \E c \in objs[i].copies : c.uri = copy_id}
    IN  IF copy_id = NONE \/ hits = {} THEN NONE ELSE CHOOSE i \in hits : TRUE

\* get_original_user_key for replace(val, get_original_user_key), which
\* returns before the lookup if val has no id
replace_user(us, c, id) ==
    IF id = NONE THEN [key |-> NONE, lru |-> c.lru, mc |-> c.mc]
    ELSE get_original_user_key(us, c.lru, c.mc, id)

\* what replace returns for the id val: the original's id if there is one
replaced_id(val, orig) == IF orig = NONE THEN val ELSE orig

\* self.our_as1 assigned whether or not an id changed
set_our_as1_always(o, id, changed, v) == [o EXCEPT !.our_as1 = v]

\* lines 1272-1274 and 1323-1324: self.as1 has been read, and self.our_as1
\* is assigned only if an id changed
set_our_as1_if(o, id, changed, v) ==
    IF changed THEN [o EXCEPT !.our_as1 = v] ELSE as1_read(o, id)

\* Object.resolve_ids on the entity o with key id: the entity and the caches
\* of get_original_user_key afterwards
resolve_ids(o, id, objs, us, lru, mc) ==
    LET a == as1(o, id)
        outer_obj == unwrap(a)
        unwrapped == set_our_as1_if(o, id, outer_obj /= a, outer_obj)
        inner_obj == get_object(outer_obj)
        \* lines 1306-1308: the object itself, as an Object, then as a user
        obj_orig == get_original_object_key(objs, inner_obj.id)
        l1 == IF obj_orig = NONE
                  THEN replace_user(us, [lru |-> lru, mc |-> mc], inner_obj.id)
              ELSE [key |-> NONE, lru |-> lru, mc |-> mc]
        orig == IF obj_orig /= NONE THEN obj_orig ELSE l1.key
        \* lines 1310-1321: actor, author, inReplyTo of outer_obj, inner_obj
        l2 == replace_user(us, l1, outer_obj.actor)
        l3 == replace_user(us, l2, outer_obj.author)
        l4 == replace_user(us, l3, inner_obj.author)
        outer_reply == get_original_object_key(objs, outer_obj.inReplyTo)
        inner_reply == get_original_object_key(objs, inner_obj.inReplyTo)
        replaced == \E k \in {orig, l2.key, l3.key, l4.key, outer_reply,
                              inner_reply} : k /= NONE
        inner_after ==
            [inner_obj EXCEPT
               !.id = replaced_id(@, orig),
               !.author = replaced_id(@, l4.key),
               !.inReplyTo = replaced_id(@, inner_reply)]
        object_after ==
            IF inner_obj.id = NONE THEN NoInner
            ELSE IF orig /= NONE /\ ~more_than_id(inner_obj)
                THEN [NoInner EXCEPT !.kind = "str", !.id = orig]
            ELSE inner_after
        resolved ==
            [outer_obj EXCEPT
               !.actor = replaced_id(@, l2.key),
               !.author = replaced_id(@, l3.key),
               !.inReplyTo = replaced_id(@, outer_reply),
               !.object = object_after]
    IN  IF a = Absent THEN [obj |-> o, lru |-> lru, mc |-> mc]
        \* lines 1277-1279: no registered source_protocol
        ELSE IF o.source_protocol \notin Labels
            THEN [obj |-> unwrapped, lru |-> lru, mc |-> mc]
        ELSE [obj |-> set_our_as1_if(unwrapped, id, replaced, resolved),
              lru |-> l4.lru, mc |-> l4.mc]

\* Protocol.for_id(id, remote=False): the protocol of the id, if any
for_id(id) == IF id \in {NONE, "x"} THEN NONE ELSE Owner(id)

\* ids.translate_user_id(id=id, from_=proto, to=proto)
translate_user_id(id) == IF id = "bsky.app/d2" THEN "d2" ELSE id

\* ids.translate_object_id(id=id, from_=proto, to=proto)
translate_object_id(id) == IF id = "bsky.app/d2/p" THEN "d2/p" ELSE id

\* replace(val, translate_fn) of normalize_ids, for the id val
normalized_id(val, user) ==
    IF for_id(val) = NONE THEN val
    ELSE IF user THEN translate_user_id(val)
    ELSE translate_object_id(val)

\* Object.normalize_ids on the entity o with key id: the entity afterwards
normalize_ids(o, id) ==
    LET a == as1(o, id)
        inner_objs == get_objects(a)
        \* lines 1383-1387; no embedded object of the model is an actor
        as_user == a.objectType \in {"follow", "stop-following"}
        got(inner) ==
            [inner EXCEPT !.id = normalized_id(@, as_user),
                          !.author = normalized_id(@, TRUE),
                          !.inReplyTo = normalized_id(@, FALSE),
                          !.kind = IF more_than_id(inner) THEN "dict" ELSE "str"]
        object_after ==
            IF Len(inner_objs) = 0 THEN NoInner
            ELSE IF Len(inner_objs) = 1 THEN got(inner_objs[1])
            ELSE [NoInner EXCEPT !.kind = "list",
                                 !.id = got(inner_objs[1]).id,
                                 !.id2 = got(inner_objs[2]).id]
        normalized ==
            [a EXCEPT !.actor = normalized_id(@, TRUE),
                      !.author = normalized_id(@, TRUE),
                      !.inReplyTo = normalized_id(@, FALSE),
                      !.object = object_after]
        ids_of(v) == <<v.actor, v.author, v.inReplyTo, v.object.id,
                       v.object.id2, v.object.author, v.object.inReplyTo>>
    IN  IF a = Absent THEN o
        ELSE IF ids_of(normalized) /= ids_of(a)
            THEN [o EXCEPT !.our_as1 = normalized]
        ELSE as1_read(o, id)

(***************************************************************************)
(* SpecResolve: resolve_ids and normalize_ids called on one Object, "s1",  *)
(* in a process that has or has not looked d1 up while a1 had no copy yet  *)
(* (the lru_cache then holds None for d1).  User a1 and Object a1/p are    *)
(* stored, with or without their copies d1 and d1/p.                       *)
(***************************************************************************)
MaxResolveOps == 2

\* canonical forms: notes, and activities with an object property that is
\* absent, an id, an embedded object or a list of two ids
ResolveContents ==
    LET UserRefs == {NONE, "a1", "d1", "brid.gy/d2", "bsky.app/d2", "x"}
        ObjRefs == {NONE, "a1/p", "d1/p", "bsky.app/d2/p", "x"}
        Inners ==
            {NoInner}
            \cup {[NoInner EXCEPT !.kind = "str", !.id = i] :
                    i \in {"a1/p", "d1/p", "d1", "bsky.app/d2"}}
            \cup {[NoInner EXCEPT !.kind = "dict", !.id = i, !.author = u,
                                  !.inReplyTo = r, !.rest = TRUE] :
                    i \in {"a1/p", "d1/p"}, u \in {NONE, "a1", "d1"},
                    r \in {NONE, "d1/p"}}
            \cup {[NoInner EXCEPT !.kind = "list", !.id = i, !.id2 = "x"] :
                    i \in {"a1/p", "d1/p"}}
    IN  [objectType : {"note"}, author : UserRefs, actor : {NONE},
         content : {"t1"}, inReplyTo : ObjRefs, object : {NoInner}]
        \cup [objectType : {"activity", "follow"}, author : {NONE},
               actor : UserRefs, content : {"t1"}, inReplyTo : {NONE},
               object : Inners]

\* the ActivityStreams 2 object that converts to the canonical form c
as2_of(c) ==
    [context |-> TRUE,
     type |-> IF c.objectType = "activity" THEN "Create"
              ELSE IF c.objectType = "follow" THEN "Follow" ELSE "Note",
     attributedTo |-> c.author, actor |-> c.actor, content |-> c.content,
     inReplyTo |-> c.inReplyTo, object |-> c.object]

InitResolve ==
    /\ \E c \in ResolveContents, sp \in {NONE, "activitypub"},
          native \in BOOLEAN, known_obj \in BOOLEAN :
          objects =
             [i \in {"s1", "a1/p"} |->
                 IF i = "s1"
                     THEN [NoObject EXCEPT
                             !.exists = TRUE, !.source_protocol = sp,
                             !.our_as1 = IF native THEN Absent ELSE c,
                             !.as2 = IF native THEN as2_of(c) ELSE Absent]
                 ELSE [NoObject EXCEPT
                         !.exists = TRUE, !.source_protocol = "activitypub",
                         !.copies = IF known_obj
                                        THEN {Target("atproto", "d1/p")}
                                    ELSE {}]]
    /\ \E known_user \in BOOLEAN :
          users = [i \in UserIds |->
                      IF i = "a1"
                          THEN [NoUser EXCEPT
                                  !.exists = TRUE,
                                  !.copies = IF known_user
                                                 THEN {Target("atproto", "d1")}
                                             ELSE {}]
                      ELSE NoUser]
    /\ profiles = [i \in UserIds |-> NoProfile]
    /\ \E looked_up \in BOOLEAN :
          lru_user = [i \in ResolveIds |->
                        IF i = "d1" /\ looked_up THEN NONE ELSE "unset"]
    /\ mc_user = [i \in ResolveIds |-> "unset"]
    /\ appended = {}
    /\ call = Idle
    /\ nops = 0
    /\ StatusIdle /\ FollowersIdle /\ EnableIdle /\ RegistryIdle

\* the next call, which remembers what the call before it returned
Call_ids ==
    /\ nops < MaxResolveOps
    /\ call.phase /= "pending"
    /\ \E op \in {"resolve_ids", "normalize_ids"} :
          call' = [phase |-> "pending", req |-> [op |-> op, id |-> "s1"],
                   first |-> IF call.phase = "done" THEN call.res ELSE Absent]
    /\ nops' = nops + 1
    /\ UNCHANGED <<st, users, profiles, lru_user, mc_user, appended, objects,
                   followers, procs, version, dms, registry>>

\* obj.resolve_ids() runs
Object_resolve_ids ==
    /\ call.phase = "pending"
    /\ call.req.op = "resolve_ids"
    /\ LET id == call.req.id
           out == resolve_ids(objects[id], id, objects, users, lru_user,
                              mc_user)
       IN  /\ objects' = [objects EXCEPT ![id] = out.obj]
           /\ lru_user' = out.lru
           /\ mc_user' = out.mc
           /\ call' = [phase |-> "done", req |-> call.req,
                       first |-> call.first,
                       res |-> [op |-> call.req.op,
                                before |-> as1(objects[id], id),
                                after |-> as1(out.obj, id)]]
    /\ UNCHANGED <<st, users, profiles, appended, nops, followers, procs,
                   version, dms, registry>>

\* obj.normalize_ids() runs
Object_normalize_ids ==
    /\ call.phase = "pending"
    /\ call.req.op = "normalize_ids"
    /\ LET id == call.req.id
           out == normalize_ids(objects[id], id)
       IN  /\ objects' = [objects EXCEPT ![id] = out]
           /\ call' = [phase |-> "done", req |-> call.req,
                       first |-> call.first,
                       res |-> [op |-> call.req.op,
                                before |-> as1(objects[id], id),
                                after |-> as1(out, id)]]
    /\ UNCHANGED <<st, users, profiles, lru_user, mc_user, appended, nops,
                   followers, procs, version, dms, registry>>

ResolveNext ==
    \/ Call_ids
    \/ Object_resolve_ids
    \/ Object_normalize_ids


(***************************************************************************)
(* Registration.  The class statements of the User subclasses run once     *)
(* each, in import order, and ProtocolUserMeta.__new__ files every class   *)
(* under its labels; registry holds the two module dicts.                  *)
(***************************************************************************)
\* the keys PROTOCOLS starts with, all mapped to None: lines 44-60
RegistryKeys ==
    {"activitypub", "ap", "atproto", "bsky", "ostatus", "web", "webmention",
     "ui", "fa", "fake", "efake", "other"}

\* The classes created with the metaclass: User itself, which has no LABEL,
\* and the protocol classes with their LABEL, ABBREV and OTHER_LABELS.
RegClasses ==
    {[name |-> "User", has_label |-> FALSE, LABEL |-> NONE, ABBREV |-> NONE,
      OTHER_LABELS |-> {}],
     [name |-> "Web", has_label |-> TRUE, LABEL |-> "web", ABBREV |-> "web",
      OTHER_LABELS |-> {"webmention"}],
     [name |-> "ActivityPub", has_label |-> TRUE, LABEL |-> "activitypub",
      ABBREV |-> "ap", OTHER_LABELS |-> {}],
     [name |-> "ATProto", has_label |-> TRUE, LABEL |-> "atproto",
      ABBREV |-> "bsky", OTHER_LABELS |-> {}],
     [name |-> "UIProtocol", has_label |-> TRUE, LABEL |-> "ui",
      ABBREV |-> "ui", OTHER_LABELS |-> {}],
     [name |-> "Fake", has_label |-> TRUE, LABEL |-> "fake", ABBREV |-> "fa",
      OTHER_LABELS |-> {}],
     [name |-> "OtherFake", has_label |-> TRUE, LABEL |-> "other",
      ABBREV |-> "other", OTHER_LABELS |-> {}],
     [name |-> "ExplicitFake", has_label |-> TRUE, LABEL |-> "efake",
      ABBREV |-> "efake", OTHER_LABELS |-> {}]}

\* ProtocolUserMeta.__new__ filing the class under cls.LABEL alone
ProtocolUserMeta_new_label_only(reg, cls) ==
    [by_label |->
        [l \in DOMAIN reg.by_label |->
            IF cls.has_label /\ l = cls.LABEL THEN cls.name
            ELSE reg.by_label[l]],
     by_kind |-> reg.by_kind \cup {cls.name}]

\* ProtocolUserMeta.__new__: lines 149-159
ProtocolUserMeta_new(reg, cls) ==
    LET labels ==
            IF cls.has_label /\ cls.LABEL \notin {"protocol", "user"}
                THEN {label \in {cls.LABEL, cls.ABBREV} \cup cls.OTHER_LABELS :
                         label /= NONE}
            ELSE {}
    IN  [by_label |->
            [l \in DOMAIN reg.by_label \cup labels |->
                IF l \in labels THEN cls.name ELSE reg.by_label[l]],
         by_kind |-> reg.by_kind \cup {cls.name}]

\* one class statement runs
Register ==
    /\ \E cls \in RegClasses :
          /\ cls.name \notin registry.by_kind
          /\ registry' = ProtocolUserMeta_new(registry, cls)
    /\ UNCHANGED <<st, users, profiles, lru_user, mc_user, appended, call,
                   nops, objects, followers, procs, version, dms>>

InitRegistry ==
    /\ registry = [by_label |-> [l \in RegistryKeys |-> NONE], by_kind |-> {}]
    /\ StatusIdle /\ UsersIdle /\ CallsIdle /\ ObjectsIdle /\ FollowersIdle
    /\ EnableIdle

(***************************************************************************)
(* SpecCopy: the calls of SpecCache together with User.get_or_create on    *)
(* the id of a copy, in one process, over the same stores.                 *)
(***************************************************************************)
CopyIdCalls ==
    {c \in GetOrCreateCalls :
        /\ PROTOCOLS(Owner(c.id)).HAS_COPIES
        /\ ~c.reload
        /\ c.kw = [direct |-> "omit", obj |-> FALSE, enabled_protocols |-> {}]}

CopyNext ==
    \/ Call(CacheCalls \cup CopyIdCalls, MaxCacheOps)
    \/ User_add
    \/ Lookup_original_user
    \/ User_get_or_create

(***************************************************************************)
(* SpecFollowRace: processes that call Follower.get_or_create at the same  *)
(* time.  The body runs inside @ndb.transactional(): it queries the stored *)
(* edges of the pair, and the commit applies its put only if the query     *)
(* would still return what the body saw; otherwise the body runs again.    *)
(***************************************************************************)
MaxFollowCalls == 2

\* calls between the users w1 and a1
RaceCalls ==
    {c \in FollowCalls : c.from_ \in {"w1", "a1"} /\ c.to \in {"w1", "a1"}}

\* a transaction that commits whatever was stored since its query
transactional_conflict_never(fs, read, from_, to) == FALSE

\* @ndb.transactional(): whether the commit conflicts with what the body read
transactional_conflict(fs, read, from_, to) ==
    query_follower(fs, from_, to) /= read

\* whether the body of get_or_create puts an entity: lines 1448-1456
Follower_puts(read, kw) == read = {} \/ kw /= "omit"

\* what the calls of Follower.get_or_create leave alone
FollowRaceOthers ==
    UNCHANGED <<st, users, profiles, lru_user, mc_user, appended, call, nops,
                objects, version, dms, registry>>

\* Follower.get_or_create(from_=..., to=..., **kwargs) is called
Follower_call(p) ==
    /\ procs[p].pc = "idle"
    /\ procs[p].calls < MaxFollowCalls
    /\ \E req \in RaceCalls :
          procs' = [procs EXCEPT ![p].pc = "txn", ![p].req = req,
                                 ![p].calls = @ + 1, ![p].retried = FALSE]
    /\ UNCHANGED followers
    /\ FollowRaceOthers

\* the body runs up to its put: the query of lines 1445-1447
Follower_run(p) ==
    /\ procs[p].pc = "txn"
    /\ procs' = [procs EXCEPT
                    ![p].pc = "commit",
                    ![p].read = query_follower(followers, procs[p].req.from_,
                                               procs[p].req.to)]
    /\ UNCHANGED followers
    /\ FollowRaceOthers

\* the transaction commits: the put, if any, is applied and the call returns
Follower_commit(p) ==
    /\ procs[p].pc = "commit"
    /\ LET r == procs[p].req
           out == Follower_get_or_create_body(followers, procs[p].read,
                                              r.from_, r.to, r.kw)
       IN  /\ Follower_puts(procs[p].read, r.kw) =>
                 ~transactional_conflict(followers, procs[p].read, r.from_,
                                         r.to)
           /\ followers' = out.followers
           /\ procs' = [procs EXCEPT ![p].pc = "idle",
                                     ![p].result = out.result]
    /\ FollowRaceOthers

\* the commit conflicts with a put since the query: the body runs again
Follower_retry(p) ==
    /\ procs[p].pc = "commit"
    /\ Follower_puts(procs[p].read, procs[p].req.kw)
    /\ transactional_conflict(followers, procs[p].read, procs[p].req.from_,
                              procs[p].req.to)
    /\ procs' = [procs EXCEPT ![p].pc = "txn", ![p].retried = TRUE]
    /\ UNCHANGED followers
    /\ FollowRaceOthers

FollowRaceNext ==
    \E p \in Procs :
        \/ Follower_call(p)
        \/ Follower_run(p)
        \/ Follower_commit(p)
        \/ Follower_retry(p)

\* no edge stored, no call made
InitFollowRace ==
    /\ followers = {}
    /\ procs = [p \in Procs |->
                   [pc |-> "idle", req |-> Absent, read |-> {}, calls |-> 0,
                    result |-> NONE, retried |-> FALSE]]
    /\ version = 0
    /\ dms = <<>>
    /\ StatusIdle /\ UsersIdle /\ CallsIdle /\ ObjectsIdle /\ RegistryIdle

(***************************************************************************)
(* SpecIsEnabled: one stored user of any protocol, with any profile, opt   *)
(* out flag and enabled_protocols, asked user.is_enabled(to_proto).        *)
(***************************************************************************)
MaxEnabledOps == 1

\* the users asked: one of each protocol, and the bridge's ATProto account
IsEnabledIds == {"w1", "a1", "d1", "bsky.brid.gy"}

IsEnabledCalls ==
    [op : {"is_enabled"}, id : IsEnabledIds, to_proto : Labels,
     explicit : BOOLEAN]

InitIsEnabled ==
    /\ \E id \in IsEnabledIds, m \in BOOLEAN, p \in AllProfiles,
          e \in SUBSET Labels :
          /\ Owner(id) \notin e
          /\ users = [i \in IsEnabledIds |->
                         IF i = id
                             THEN [NoUser EXCEPT !.exists = TRUE,
                                                 !.obj_key = TRUE,
                                                 !.manual_opt_out = m,
                                                 !.enabled_protocols = e]
                         ELSE NoUser]
          /\ profiles = [i \in IsEnabledIds |-> IF i = id THEN p ELSE NoProfile]
    /\ lru_user = [i \in IsEnabledIds |-> "unset"]
    /\ mc_user = [i \in IsEnabledIds |-> "unset"]
    /\ appended = {}
    /\ call = Idle
    /\ nops = 0
    /\ StatusIdle /\ ObjectsIdle /\ FollowersIdle /\ EnableIdle /\ RegistryIdle

\* user.is_enabled(to_proto, explicit) runs on the stored user
User_is_enabled ==
    /\ call.phase = "pending"
    /\ call.req.op = "is_enabled"
    /\ users[call.req.id].exists
    /\ call' = [phase |-> "done", req |-> call.req, first |-> call.first,
                res |-> [result |-> is_enabled(call.req.id, users[call.req.id],
                                               profiles, call.req.to_proto,
                                               call.req.explicit)]]
    /\ UNCHANGED <<st, users, profiles, lru_user, mc_user, appended, nops,
                   objects, followers, procs, version, dms, registry>>

IsEnabledNext ==
    \/ Call(IsEnabledCalls, MaxEnabledOps)
    \/ User_is_enabled

(***************************************************************************)
(* SpecUserRace: processes that call User.get_or_create for the same id at *)
(* the same time.  _run is the body of an @ndb.transactional(): it reads   *)
(* the store, calls create_for and writes the user; a commit that finds    *)
(* the store written since the body read it discards the body's writes     *)
(* and runs the body again.  What the body did outside the store (the      *)
(* create_for calls, the cache entries) stays done.                        *)
(***************************************************************************)
MaxRaceCalls == 1

RaceUserCalls ==
    {c \in GetOrCreateCalls :
        /\ c.id = "w1"
        /\ ~c.reload
        /\ ~c.kw.obj
        /\ c.kw.enabled_protocols = {}}

\* what the calls of User.get_or_create leave alone
UserRaceOthers ==
    UNCHANGED <<st, appended, call, nops, objects, followers, dms, registry>>

\* cls.get_or_create(id, ...) is called
UserRace_call(p) ==
    /\ procs[p].pc = "idle"
    /\ procs[p].calls < MaxRaceCalls
    /\ \E req \in RaceUserCalls :
          procs' = [procs EXCEPT ![p].pc = "txn", ![p].req = req,
                                 ![p].calls = @ + 1, ![p].runs = 0,
                                 ![p].invoked = [l \in Labels |-> 0]]
    /\ UNCHANGED <<users, profiles, lru_user, mc_user, version>>
    /\ UserRaceOthers

\* the body _run runs on the store as it is now: lines 301-377
UserRace_run(p) ==
    /\ procs[p].pc = "txn"
    /\ LET r == procs[p].req
       IN \E loaded \in IF WillReload(r.id, r.reload)
                            THEN SmallProfiles \cup {NoProfile}
                            ELSE {NoProfile} :
           \E fail \in IF get_or_create(r.id, r.propagate, r.allow_opt_out,
                                         r.reload, r.kw, loaded, TRUE,
                                         NONE).attempted = {}
                           THEN {FALSE}
                        ELSE IF FreshUri("atproto") = NONE THEN {TRUE}
                        ELSE BOOLEAN :
             \E out \in {get_or_create(r.id, r.propagate, r.allow_opt_out,
                                        r.reload, r.kw, loaded, fail,
                                        FreshUri("atproto"))} :
               /\ lru_user' = out.lru
               /\ mc_user' = out.mc
               /\ procs' = [procs EXCEPT
                              ![p].pc = "commit",
                              ![p].read_version = version,
                              ![p].puts = (out.users /= users
                                           \/ out.profiles /= profiles),
                              ![p].out = [result |-> out.result,
                                          users |-> out.users,
                                          profiles |-> out.profiles,
                                          attempted |-> out.attempted],
                              ![p].runs = @ + 1,
                              ![p].invoked =
                                  [l \in Labels |->
                                      IF l \in out.attempted THEN @[l] + 1
                                      ELSE @[l]]]
    /\ UNCHANGED <<users, profiles, version>>
    /\ UserRaceOthers

\* the transaction commits: nothing was written since the body read
UserRace_commit(p) ==
    /\ procs[p].pc = "commit"
    /\ ~procs[p].puts \/ procs[p].read_version = version
    /\ procs' = [procs EXCEPT ![p].pc = "done"]
    /\ IF procs[p].puts
          THEN /\ users' = procs[p].out.users
               /\ profiles' = procs[p].out.profiles
               /\ version' = version + 1
          ELSE UNCHANGED <<users, profiles, version>>
    /\ UNCHANGED <<lru_user, mc_user>>
    /\ UserRaceOthers

\* the commit conflicts with a write since the read: the body runs again
UserRace_retry(p) ==
    /\ procs[p].pc = "commit"
    /\ procs[p].puts
    /\ procs[p].read_version /= version
    /\ procs' = [procs EXCEPT ![p].pc = "txn"]
    /\ UNCHANGED <<users, profiles, lru_user, mc_user, version>>
    /\ UserRaceOthers

UserRaceNext ==
    \E p \in Procs :
        \/ UserRace_call(p)
        \/ UserRace_run(p)
        \/ UserRace_commit(p)
        \/ UserRace_retry(p)

\* the stores of SpecUser, no call made
InitUserRace ==
    /\ UsersInit
    /\ procs = [p \in Procs |->
                   [pc |-> "idle", req |-> Absent, calls |-> 0, runs |-> 0,
                    invoked |-> [l \in Labels |-> 0], read_version |-> 0,
                    puts |-> FALSE, out |-> Absent]]
    /\ version = 0
    /\ dms = <<>>
    /\ StatusIdle /\ ObjectsIdle /\ FollowersIdle /\ RegistryIdle

(***************************************************************************)
(* SpecPropagate: User.get_or_create(id, propagate=True) for the stored    *)
(* Fake user f1, whose protocol bridges to other by default.  The          *)
(* propagation loop is followed label by label; fails names the protocols  *)
(* whose create_for raises ValueError.                                     *)
(***************************************************************************)
NoBotProfile == [GoodProfile EXCEPT !.summary = {"#nobot"}]

Range(s) == {s[i] : i \in 1..Len(s)}

\* the values of user.enabled_protocols, a list without repeats
EnabledLists ==
    {e \in UNION {[1..n -> {"efake", "other", "web"}] : n \in 0..3} :
        Len(e) = Cardinality(Range(e))}

\* list(cls.DEFAULT_ENABLED_PROTOCOLS)
default_list(cls) ==
    LET S == PROTOCOLS(cls).DEFAULT_ENABLED_PROTOCOLS
    IN  CHOOSE q \in [1..Cardinality(S) -> S] : Range(q) = S

\* the id of the copy create_for makes in a protocol
copy_uri(label) == IF label = "other" THEN "o1" ELSE "e1"

\* the loop of lines 346-359 over labels: the user afterwards and the
\* protocols create_for was called for, in order
RECURSIVE propagate_loop(_, _, _, _, _, _, _)
propagate_loop(cls, uid, u, profs, labels, fails, attempted) ==
    IF labels = <<>> THEN [user |-> u, attempted |-> attempted]
    ELSE LET label == Head(labels)
         IN  IF \/ label = cls
                \/ ~PROTOCOLS(label).HAS_COPIES
                \/ has_copy(uid, u, label)
                \/ ~is_enabled(uid, u, profs, label, FALSE)
                 THEN propagate_loop(cls, uid, u, profs, Tail(labels), fails,
                                     attempted)
             ELSE IF label \in fails
                 THEN propagate_loop(cls, uid,
                                     [u EXCEPT !.enabled_protocols =
                                         @ \ {label}],
                                     profs, Tail(labels), fails,
                                     Append(attempted, label))
             ELSE propagate_loop(cls, uid,
                                 [u EXCEPT !.copies =
                                     @ \cup {Target(label, copy_uri(label))}],
                                 profs, Tail(labels), fails,
                                 Append(attempted, label))

\* _run for a stored user, with propagate=True and no other argument but
\* allow_opt_out: lines 301-309 and 345-377
get_or_create_propagate(uid, u, profs, allow_opt_out, enabled_list, fails) ==
    IF user_status(uid, u, profs) /= NONE /\ ~allow_opt_out
        THEN [result |-> NONE, user |-> u, attempted |-> <<>>]
    ELSE IF user_status(uid, u, profs) /= NONE
        THEN [result |-> uid, user |-> u, attempted |-> <<>>]
    ELSE LET out == propagate_loop(Owner(uid), uid, u, profs,
                                   enabled_list \o default_list(Owner(uid)),
                                   fails, <<>>)
         IN  [result |-> uid, user |-> out.user, attempted |-> out.attempted]

MaxPropOps == 1

\* enabled_list is the stored user's enabled_protocols, in its stored order
PropCalls ==
    [op : {"get_or_create"}, id : {"f1"}, allow_opt_out : BOOLEAN,
     enabled_list : EnabledLists, fails : SUBSET {"other", "efake"}]

\* the stored user f1: its profile, its enabled_protocols list and its copies
InitPropagate ==
    /\ \E e \in SUBSET {"efake", "other", "web"}, m \in BOOLEAN,
          c \in SUBSET {Target(l, copy_uri(l)) : l \in {"other", "efake"}} :
          users = [i \in {"f1"} |->
                      [NoUser EXCEPT !.exists = TRUE, !.obj_key = TRUE,
                                     !.mod = TRUE, !.manual_opt_out = m,
                                     !.enabled_protocols = e, !.copies = c]]
    /\ \E p \in {GoodProfile, NoBotProfile, NoBridgeProfile} :
          profiles = [i \in {"f1"} |-> p]
    /\ lru_user = <<>>
    /\ mc_user = <<>>
    /\ appended = {}
    /\ call = Idle
    /\ nops = 0
    /\ StatusIdle /\ ObjectsIdle /\ FollowersIdle /\ EnableIdle /\ RegistryIdle

\* Fake.get_or_create('f1', propagate=True, allow_opt_out=...) runs
User_get_or_create_propagate ==
    /\ call.phase = "pending"
    /\ call.req.op = "get_or_create"
    /\ LET r == call.req
           out == get_or_create_propagate(r.id, users[r.id], profiles,
                                          r.allow_opt_out, r.enabled_list,
                                          r.fails)
       IN  /\ users' = [users EXCEPT ![r.id] = out.user]
           /\ call' = [phase |-> "done", req |-> r, first |-> call.first,
                       res |-> [result |-> out.result,
                                attempted |-> out.attempted,
                                before |-> users[r.id]]]
    /\ UNCHANGED <<st, profiles, lru_user, mc_user, appended, nops,
                   objects, followers, procs, version, dms, registry>>

PropagateNext ==
    \/ Call({c \in PropCalls :
                Range(c.enabled_list) = users["f1"].enabled_protocols},
            MaxPropOps)
    \/ User_get_or_create_propagate

(***************************************************************************)
(* SpecChain: User.get_by_id on a store whose users point at one another   *)
(* by use_instead; the pointers form no cycle.                             *)
(***************************************************************************)
MaxChainOps == 1

ChainIds == {"w1", "a1", "d1"}

\* the id reached from id by following use_instead n times, or NONE
RECURSIVE follow(_, _, _)
follow(us, id, n) ==
    IF n = 0 \/ id = NONE THEN id
    ELSE IF ~us[id].exists THEN NONE
    ELSE follow(us, us[id].use_instead, n - 1)

\* no user is reached from itself by use_instead pointers
Acyclic(us) ==
    \A id \in DOMAIN us : \A n \in 1..Cardinality(DOMAIN us) :
        follow(us, id, n) /= id

\* the number of use_instead pointers from the stored user id to the user
\* that has none
RECURSIVE chain_length(_, _)
chain_length(us, id) ==
    IF ~us[id].exists \/ us[id].use_instead = NONE THEN 0
    ELSE IF ~us[us[id].use_instead].exists THEN 1
    ELSE 1 + chain_length(us, us[id].use_instead)

ChainCalls == [op : {"get_by_id"}, id : ChainIds, allow_opt_out : BOOLEAN]

InitChain ==
    /\ users \in [ChainIds ->
                     {NoUser} \cup
                     {[NoUser EXCEPT !.exists = TRUE, !.manual_opt_out = m,
                                     !.use_instead = t] :
                         m \in BOOLEAN, t \in ChainIds \cup {NONE}}]
    /\ Acyclic(users)
    /\ \A id \in ChainIds :
          users[id].exists /\ users[id].use_instead /= NONE =>
             users[users[id].use_instead].exists
    /\ profiles = [i \in ChainIds |-> NoProfile]
    /\ lru_user = [i \in ChainIds |-> "unset"]
    /\ mc_user = [i \in ChainIds |-> "unset"]
    /\ appended = {}
    /\ call = Idle
    /\ nops = 0
    /\ StatusIdle /\ ObjectsIdle /\ FollowersIdle /\ EnableIdle /\ RegistryIdle

ChainNext ==
    \/ Call(ChainCalls, MaxChainOps)
    \/ User_get_by_id

(***************************************************************************)
(* SpecScroll: a client that requests the first page and then keeps        *)
(* requesting the page at the cursor the page before returned; appended    *)
(* holds the pages the walk has collected so far.                          *)
(***************************************************************************)
MaxScrollOps == 5

NoParam == [kind |-> "empty", t |-> 0, tz |-> "naive"]

\* a request of the walk: start is the cursor a forward walk began at
ScrollReq(before, after, by, walk, start) ==
    [op |-> "fetch_page", before |-> before, after |-> after, by |-> by,
     walk |-> walk, start |-> start]

ScrollOthers ==
    UNCHANGED <<st, users, profiles, lru_user, mc_user, objects, followers,
                procs, version, dms, registry>>

\* the first page: no before, no after
Scroll_first ==
    /\ call.phase = "idle"
    /\ nops < MaxScrollOps
    /\ \E by \in {"created", "updated"} :
          call' = [phase |-> "pending",
                   req |-> ScrollReq(NoParam, NoParam, by, "before", 0),
                   first |-> Absent]
    /\ nops' = nops + 1
    /\ appended' = <<>>
    /\ ScrollOthers

\* the next older page: before is the new_before of the page just returned
Scroll_before ==
    /\ call.phase = "done"
    /\ nops < MaxScrollOps
    /\ call.req.walk = "before"
    /\ call.res.result = "ok"
    /\ call.res.new_before /= Absent
    /\ call' = [phase |-> "pending",
                req |-> ScrollReq(call.res.new_before, NoParam, call.req.by,
                                  "before", 0),
                first |-> Absent]
    /\ nops' = nops + 1
    /\ appended' = Append(appended, call.res.results)
    /\ ScrollOthers

\* the client turns round: a forward walk from the new_after of the page
\* just returned
Scroll_turn ==
    /\ call.phase = "done"
    /\ nops < MaxScrollOps
    /\ call.req.walk = "before"
    /\ call.res.result = "ok"
    /\ call.res.new_after /= Absent
    /\ call' = [phase |-> "pending",
                req |-> ScrollReq(NoParam, call.res.new_after, call.req.by,
                                  "after", call.res.new_after.t),
                first |-> Absent]
    /\ nops' = nops + 1
    /\ appended' = <<>>
    /\ ScrollOthers

\* the next newer page: after is the new_after of the page just returned
Scroll_after ==
    /\ call.phase = "done"
    /\ nops < MaxScrollOps
    /\ call.req.walk = "after"
    /\ call.res.result = "ok"
    /\ call.res.new_after /= Absent
    /\ call' = [phase |-> "pending",
                req |-> ScrollReq(NoParam, call.res.new_after, call.req.by,
                                  "after", call.req.start),
                first |-> Absent]
    /\ nops' = nops + 1
    /\ appended' = Append(appended, call.res.results)
    /\ ScrollOthers

InitScroll ==
    /\ objects \in [PageIds -> PageEntities]
    /\ call = Idle
    /\ nops = 0
    /\ StatusIdle /\ UsersIdle /\ FollowersIdle /\ EnableIdle /\ RegistryIdle

ScrollNext ==
    \/ Scroll_first
    \/ Scroll_before
    \/ Scroll_turn
    \/ Scroll_after
    \/ Fetch_page

(***************************************************************************)
(* SpecOwns: Object.get_or_create calls that declare a source protocol,    *)
(* on an id one protocol claims and on an id no protocol can tell about.   *)
(* The calls pass no content, so every call is authorized.                 *)
(***************************************************************************)
MaxOwnsOps == 3

OwnsIds == {"n1", "m1"}

OwnsCalls ==
    [op : {"Object.get_or_create"}, id : OwnsIds, authed_as : {NONE},
     props : [source_protocol : {"omit", "web", "activitypub", "atproto", "ui"},
              slot : {"none"}, value : {Absent}]]

InitOwns ==
    /\ objects = [id \in OwnsIds |-> NoObject]
    /\ call = Idle
    /\ nops = 0
    /\ StatusIdle /\ UsersIdle /\ FollowersIdle /\ EnableIdle /\ RegistryIdle

OwnsNext ==
    \/ Call(OwnsCalls, MaxOwnsOps)
    \/ Object_get_or_create

(***************************************************************************)
(* SpecLabels: puts of an Object whose labels, a repeated property, and    *)
(* whose content the caller has set; objects holds the labels list and     *)
(* the objectType of the canonical form of each stored Object.             *)
(***************************************************************************)
MaxLabelOps == 2

MaxLabelLen == 2

LabelIds == {"n1"}

\* values of Object.labels: lists over two of the LABELS, repeats allowed
LabelLists ==
    UNION {[1..n -> {"activity", "feed"}] : n \in 0..MaxLabelLen}

NoLabels == [exists |-> FALSE, labels |-> <<>>, objectType |-> NONE]

\* util.add(lst, val): appends val unless lst already has it
util_add(lst, val) == IF val \in Range(lst) THEN lst ELSE Append(lst, val)

\* list.remove(val): removes the first occurrence
list_remove(lst, val) ==
    LET i == CHOOSE i \in 1..Len(lst) :
                 lst[i] = val /\ \A j \in 1..(i - 1) : lst[j] /= val
    IN  SubSeq(lst, 1, i - 1) \o SubSeq(lst, i + 1, Len(lst))

\* lines 1048-1051: the labels after _pre_put_hook, for the objectType of
\* the canonical form (NONE when there is no content)
set_activity_label(labels, objectType) ==
    IF objectType = "activity" THEN util_add(labels, "activity")
    ELSE IF "activity" \in Range(labels) THEN list_remove(labels, "activity")
    ELSE labels

\* Object.get_or_create(id, labels=..., our_as1=...): populate skips empty
\* values, so an empty list or no content keeps what is stored
LabelCalls ==
    [op : {"Object.put"}, id : LabelIds, labels : LabelLists,
     objectType : {NONE, "note", "activity"}]

\* the put of the pending call runs
Object_put_labels ==
    /\ call.phase = "pending"
    /\ call.req.op = "Object.put"
    /\ LET o == objects[call.req.id]
           labels == IF call.req.labels = <<>> THEN o.labels
                     ELSE call.req.labels
           type == IF call.req.objectType = NONE THEN o.objectType
                   ELSE call.req.objectType
       IN  /\ objects' = [objects EXCEPT
                            ![call.req.id] =
                               [exists |-> TRUE,
                                labels |-> set_activity_label(labels, type),
                                objectType |-> type]]
           /\ call' = [phase |-> "done", req |-> call.req,
                       first |-> call.first,
                       res |-> [result |-> "ok", before |-> o]]
    /\ UNCHANGED <<st, users, profiles, lru_user, mc_user, appended, nops,
                   followers, procs, version, dms, registry>>

InitLabels ==
    /\ objects = [id \in LabelIds |-> NoLabels]
    /\ call = Idle
    /\ nops = 0
    /\ StatusIdle /\ UsersIdle /\ FollowersIdle /\ EnableIdle /\ RegistryIdle

LabelsNext ==
    \/ Call(LabelCalls, MaxLabelOps)
    \/ Object_put_labels

(***************************************************************************)
(* SpecMerge: User.get_or_create with enabled_protocols passed, on a       *)
(* stored user that already has some protocols enabled.                    *)
(***************************************************************************)
MaxMergeOps == 1

MergeCalls ==
    [op : {"get_or_create"}, id : {"w1", "a1"}, propagate : BOOLEAN,
     allow_opt_out : BOOLEAN, reload : {FALSE},
     kw : [direct : {"omit"}, obj : {FALSE},
           enabled_protocols : SUBSET Labels]]

InitMerge ==
    /\ \E id \in {"w1", "a1"}, m \in BOOLEAN,
          p \in {NoProfile, GoodProfile, NoBotProfile, NoBridgeProfile},
          e \in SUBSET Labels :
          /\ users = [i \in UserIds |->
                         IF i = id
                             THEN [NoUser EXCEPT !.exists = TRUE,
                                                 !.obj_key = TRUE,
                                                 !.manual_opt_out = m,
                                                 !.enabled_protocols = e]
                         ELSE NoUser]
          /\ profiles = [i \in UserIds |-> IF i = id THEN p ELSE NoProfile]
    /\ lru_user = [i \in UserIds |-> "unset"]
    /\ mc_user = [i \in UserIds |-> "unset"]
    /\ appended = {}
    /\ call = Idle
    /\ nops = 0
    /\ StatusIdle /\ ObjectsIdle /\ FollowersIdle /\ EnableIdle /\ RegistryIdle

MergeNext ==
    \/ Call({c \in MergeCalls : users[c.id].exists}, MaxMergeOps)
    \/ User_get_or_create

(***************************************************************************)
(* SpecFollowPage: Follower.fetch_page for the Web user w1, whose          *)
(* followers and followings are edges with the ActivityPub user a1; a1 is  *)
(* stored or not, opted out or not.  objects holds the Follower entities.  *)
(***************************************************************************)
MaxFollowPageOps == 1

NoEdge ==
    [exists |-> FALSE, created |-> 0, updated |-> 0, from_ |-> NONE,
     to |-> NONE, status |-> NONE]

\* stored Follower entities between w1 and a1, written at hour 1 or 2
FollowerEntities ==
    {NoEdge}
    \cup {[exists |-> TRUE, created |-> t, updated |-> t, from_ |-> d[1],
           to |-> d[2], status |-> s] :
            t \in 1..2, d \in {<<"a1", "w1">>, <<"w1", "a1">>},
            s \in {"active", "inactive"}}

\* Follower.fetch_page(collection, user) for the request parameters of req:
\* the edges returned and the cursors, or the exception raised
Follower_fetch_page(fs, us, profs, collection, user, req, more) ==
    LET filter_prop(f) == IF collection = "followers" THEN f.to ELSE f.from_
        \* lines 1480-1484: the query
        query == [id \in DOMAIN fs |->
                    IF /\ fs[id].exists
                       /\ fs[id].status = "active"
                       /\ filter_prop(fs[id]) = user
                        THEN fs[id] ELSE NoEdge]
        page == fetch_page(query, [req EXCEPT !.by = "updated"], more)
        \* lines 1487-1488: the key get_multi looks up for each edge
        other(id) == IF collection = "followers" THEN fs[id].from_
                     ELSE fs[id].to
        kept == SelectSeq(page.results,
                          LAMBDA id : user_status(other(id), us[other(id)],
                                                  profs) = NONE)
    IN  IF page.result /= "ok" THEN page
        \* line 1493: f.user is None for a key with no entity behind it
        ELSE IF \E i \in 1..Len(page.results) :
                   ~us[other(page.results[i])].exists
            THEN [page EXCEPT !.result = "AttributeError", !.results = <<>>]
        ELSE [page EXCEPT !.results = kept]

FollowPageCalls ==
    [op : {"Follower.fetch_page"}, collection : {"followers", "following"},
     user : {"w1"}, before : {[kind |-> "empty", t |-> 0, tz |-> "naive"]},
     after : {[kind |-> "empty", t |-> 0, tz |-> "naive"]}, by : {"updated"}]

\* Follower.fetch_page runs for the pending call
Follower_fetch_page_run ==
    /\ call.phase = "pending"
    /\ call.req.op = "Follower.fetch_page"
    /\ \E more \in BOOLEAN :
          call' = [phase |-> "done", req |-> call.req, first |-> call.first,
                   res |-> Follower_fetch_page(objects, users, profiles,
                                               call.req.collection,
                                               call.req.user, call.req, more)]
    /\ UNCHANGED <<st, users, profiles, lru_user, mc_user, appended, nops,
                   objects, followers, procs, version, dms, registry>>

InitFollowPage ==
    /\ objects \in [PageIds -> FollowerEntities]
    /\ \E a \in SeedA1 :
          /\ users = [i \in {"w1", "a1"} |->
                         IF i = "a1" THEN a
                         ELSE [NoUser EXCEPT !.exists = TRUE]]
          /\ profiles = [i \in {"w1", "a1"} |->
                            IF i = "a1" /\ a.exists THEN GoodProfile
                            ELSE NoProfile]
    /\ lru_user = <<>>
    /\ mc_user = <<>>
    /\ appended = <<>>
    /\ call = Idle
    /\ nops = 0
    /\ StatusIdle /\ FollowersIdle /\ EnableIdle /\ RegistryIdle

FollowPageNext ==
    \/ Call(FollowPageCalls, MaxFollowPageOps)
    \/ Follower_fetch_page_run

(***************************************************************************)
(* SpecAdd: add('copies', val) called from two threads on one loaded       *)
(* instance (User.add and Object.add have the same body).  st is the       *)
(* instance: its copies list, by uri, and the holder of self.lock; procs   *)
(* is each thread's position in add; appended holds the values the list    *)
(* was loaded with and those whose add has returned.                       *)
(***************************************************************************)
MaxAddCalls == 2

AddUris == {"d1", "d2"}

\* whether Lock.acquire succeeds when the lock is held by holder
Lock_acquire_free(holder) == TRUE

Lock_acquire(holder) == holder = NONE

\* add(prop, val) is called in thread t
Add_call(t) ==
    /\ procs[t].pc = "idle"
    /\ procs[t].calls < MaxAddCalls
    /\ \E val \in AddUris :
          procs' = [procs EXCEPT ![t] = [pc |-> "lock", val |-> val,
                                         calls |-> @.calls + 1]]
    /\ UNCHANGED <<st, users, profiles, lru_user, mc_user, appended, call,
                   nops, objects, followers, version, dms, registry>>

\* with self.lock: the thread enters once the lock is free
Add_acquire(t) ==
    /\ procs[t].pc = "lock"
    /\ Lock_acquire(st.lock)
    /\ st' = [st EXCEPT !.lock = t]
    /\ procs' = [procs EXCEPT ![t].pc = "test"]
    /\ UNCHANGED <<users, profiles, lru_user, mc_user, appended, call, nops,
                   objects, followers, version, dms, registry>>

\* util.add: if val not in seq
Add_test(t) ==
    /\ procs[t].pc = "test"
    /\ procs' = [procs EXCEPT ![t].pc =
                    IF \E i \in 1..Len(st.copies) : st.copies[i] = procs[t].val
                        THEN "release" ELSE "append"]
    /\ UNCHANGED <<st, users, profiles, lru_user, mc_user, appended, call,
                   nops, objects, followers, version, dms, registry>>

\* util.add: seq.append(val)
Add_append(t) ==
    /\ procs[t].pc = "append"
    /\ st' = [st EXCEPT !.copies = Append(@, procs[t].val)]
    /\ procs' = [procs EXCEPT ![t].pc = "release"]
    /\ UNCHANGED <<users, profiles, lru_user, mc_user, appended, call, nops,
                   objects, followers, version, dms, registry>>

\* the with block is left: the lock is released
Add_release(t) ==
    /\ procs[t].pc = "release"
    /\ st' = [st EXCEPT !.lock = NONE]
    /\ procs' = [procs EXCEPT ![t].pc = "memcache"]
    /\ UNCHANGED <<users, profiles, lru_user, mc_user, appended, call, nops,
                   objects, followers, version, dms, registry>>

\* if prop == 'copies': the memcache entry is set, and add returns
Add_return(t) ==
    /\ procs[t].pc = "memcache"
    /\ mc_user' = add_memcache(mc_user, "copies",
                               Target("atproto", procs[t].val), "w1")
    /\ appended' = appended \cup {procs[t].val}
    /\ procs' = [procs EXCEPT ![t].pc = "idle"]
    /\ UNCHANGED <<st, users, profiles, lru_user, call, nops, objects,
                   followers, version, dms, registry>>

AddNext ==
    \E t \in Procs :
        \/ Add_call(t)
        \/ Add_acquire(t)
        \/ Add_test(t)
        \/ Add_append(t)
        \/ Add_release(t)
        \/ Add_return(t)

\* the instance as loaded, with any copies list; no thread in add
InitAdd ==
    /\ \E l \in {<<>>, <<"d1">>, <<"d1", "d1">>, <<"d2", "d1">>} :
          /\ st = [copies |-> l, lock |-> NONE]
          /\ appended = {l[i] : i \in 1..Len(l)}
    /\ procs = [t \in Procs |-> [pc |-> "idle", val |-> NONE, calls |-> 0]]
    /\ mc_user = [u \in AddUris |-> "unset"]
    /\ users = <<>>
    /\ profiles = <<>>
    /\ lru_user = <<>>
    /\ version = 0
    /\ dms = <<>>
    /\ CallsIdle /\ ObjectsIdle /\ FollowersIdle /\ RegistryIdle

(***************************************************************************)
(* SpecAs1: the as1 property read on one Object instance, n1, whose        *)
(* content is in one of our_as1, as2 and mf2; our_as1 comes with or        *)
(* without an id.  Between reads the instance may be put.                  *)
(***************************************************************************)
MaxAs1Ops == 3

\* the contents the instance is constructed with
As1Contents ==
    {[NoObject EXCEPT !.exists = TRUE, !.our_as1 = v] : v \in AS1Values}
    \cup {[NoObject EXCEPT !.exists = TRUE,
                           !.our_as1 = [k \in DOMAIN v \cup {"id"} |->
                                           IF k = "id" THEN i ELSE v[k]]] :
            v \in AS1Values, i \in {"n1", "x"}}
    \cup {[NoObject EXCEPT !.exists = TRUE, !.as2 = v] : v \in AS2Values}
    \cup {[NoObject EXCEPT !.exists = TRUE, !.mf2 = v] : v \in MF2Values}

\* the next call, which remembers what the call before it returned
Call_as1 ==
    /\ nops < MaxAs1Ops
    /\ call.phase /= "pending"
    /\ \E op \in {"as1", "put"} :
          call' = [phase |-> "pending", req |-> [op |-> op, id |-> "n1"],
                   first |-> IF call.phase = "done" THEN call.res ELSE Absent]
    /\ nops' = nops + 1
    /\ UNCHANGED <<st, users, profiles, lru_user, mc_user, appended, objects,
                   followers, procs, version, dms, registry>>

\* obj.as1 is read
Object_as1 ==
    /\ call.phase = "pending"
    /\ call.req.op = "as1"
    /\ LET id == call.req.id
       IN  /\ objects' = [objects EXCEPT ![id] = as1_read(@, id)]
           /\ call' = [phase |-> "done", req |-> call.req,
                       first |-> call.first,
                       res |-> [op |-> "as1", result |-> as1(objects[id], id)]]
    /\ UNCHANGED <<st, users, profiles, lru_user, mc_user, appended, nops,
                   followers, procs, version, dms, registry>>

\* obj.put() runs
Object_put ==
    /\ call.phase = "pending"
    /\ call.req.op = "put"
    /\ LET id == call.req.id
       IN  /\ objects' = [objects EXCEPT ![id] = Object_pre_put_hook(@, id)]
           /\ call' = [phase |-> "done", req |-> call.req,
                       first |-> call.first,
                       res |-> [op |-> "put", result |-> NONE]]
    /\ UNCHANGED <<st, users, profiles, lru_user, mc_user, appended, nops,
                   followers, procs, version, dms, registry>>

As1Next ==
    \/ Call_as1
    \/ Object_as1
    \/ Object_put

InitAs1 ==
    /\ \E o \in As1Contents : objects = [i \in {"n1"} |-> o]
    /\ call = Idle
    /\ nops = 0
    /\ StatusIdle /\ UsersIdle /\ FollowersIdle /\ EnableIdle /\ RegistryIdle

InitStatus ==
    StatusInit /\ UsersIdle /\ CallsIdle /\ ObjectsIdle /\ FollowersIdle
               /\ EnableIdle /\ RegistryIdle

InitUser ==
    UsersInit /\ StatusIdle /\ ObjectsIdle /\ FollowersIdle /\ EnableIdle
              /\ RegistryIdle

InitFollower ==
    FollowersInit /\ StatusIdle /\ UsersIdle /\ ObjectsIdle /\ EnableIdle
                  /\ RegistryIdle

InitObject ==
    ObjectsInit /\ StatusIdle /\ UsersIdle /\ FollowersIdle /\ EnableIdle
                /\ RegistryIdle

InitEnable ==
    EnableInit /\ StatusIdle /\ CachesIdle /\ CallsIdle /\ ObjectsIdle
               /\ FollowersIdle /\ RegistryIdle

\* User.status is read; nothing else moves
NextStatus ==
    /\ StatusNext
    /\ UNCHANGED <<users, profiles, lru_user, mc_user, appended, call, nops,
                   objects, followers, procs, version, dms, registry>>

SpecStatus == InitStatus /\ [][NextStatus]_vars

SpecUser == InitUser /\ [][UsersNext]_vars

SpecCache == InitUser /\ [][CacheNext]_vars

SpecFollower == InitFollower /\ [][FollowersNext]_vars

SpecObject == InitObject /\ [][ObjectsNext]_vars

SpecEnable == InitEnable /\ [][EnableNext]_vars

SpecPage == InitPage /\ [][PageNext]_vars

SpecResolve == InitResolve /\ [][ResolveNext]_vars

SpecRegistry == InitRegistry /\ [][Register]_vars

SpecCopy == InitUser /\ [][CopyNext]_vars

SpecFollowRace == InitFollowRace /\ [][FollowRaceNext]_vars

SpecIsEnabled == InitIsEnabled /\ [][IsEnabledNext]_vars

SpecUserRace == InitUserRace /\ [][UserRaceNext]_vars

SpecPropagate == InitPropagate /\ [][PropagateNext]_vars

SpecChain == InitChain /\ [][ChainNext]_vars

SpecScroll == InitScroll /\ [][ScrollNext]_vars

SpecOwns == InitOwns /\ [][OwnsNext]_vars

SpecLabels == InitLabels /\ [][LabelsNext]_vars

SpecMerge == InitMerge /\ [][MergeNext]_vars

SpecFollowPage == InitFollowPage /\ [][FollowPageNext]_vars

SpecAdd == InitAdd /\ [][AddNext]_vars

SpecAs1 == InitAs1 /\ [][As1Next]_vars

Spec == SpecUser

(***************************************************************************)
(* Properties of User.status (SpecStatus).                                 *)
(***************************************************************************)
\* the status of st's user has been read, its profile is loaded, its bio
\* contains #nobridge and its enabled_protocols is non-empty
NoBridgeOptedIn ==
    /\ st.phase = "read"
    /\ st.obj.as1
    /\ "#nobridge" \in st.obj.summary
    /\ st.enabled_protocols /= {}

\* one of the class's avatar, name or account age requirements fails
FailsRequirement ==
    \/ st.cls.REQUIRES_AVATAR /\ ~st.obj.image
    \/ st.cls.REQUIRES_NAME /\ st.obj.displayName \in {"absent", "handle"}
    \/ st.cls.REQUIRES_OLD_ACCOUNT /\ st.obj.published = "recent"

\* C6 as stated: a user with a loaded profile whose bio contains #nobridge
\* and whose enabled_protocols is non-empty has status opt-out.
C6_NoBridgeAlwaysOptOut == NoBridgeOptedIn => st.result = "opt-out"

\* C6, amended: such a user has status opt-out, unless it is not manually
\* opted out and fails an avatar, name or account age requirement of its
\* protocol, in which case its status is blocked.
C6_NoBridgeOverridesOptIn ==
    NoBridgeOptedIn =>
        st.result = IF ~st.manual_opt_out /\ FailsRequirement
                       THEN "blocked" ELSE "opt-out"

\* C6 witness: #nobridge wins over a non-empty enabled_protocols, with no
\* manual opt out involved
C6_Witness ==
    /\ NoBridgeOptedIn
    /\ ~st.manual_opt_out
    /\ ~FailsRequirement
    /\ st.result = "opt-out"

(***************************************************************************)
(* Properties of User.get_or_create and User.get_by_id (SpecUser).         *)
(***************************************************************************)
\* this step is the run of the pending call of op
Runs(op) ==
    /\ call.phase = "pending"
    /\ call.req.op = op
    /\ call'.phase = "done"

\* the call of op has just returned
Returned(op) == call.phase = "done" /\ call.req.op = op

\* C2: once a stored user's direct flag is true, it stays true over every
\* User.get_or_create call, whether the call passes direct=False or omits
\* direct.
C2_DirectMonotonic ==
    [][Runs("get_or_create") =>
          \A id \in UserIds :
             users[id].exists /\ users[id].direct =>
                users'[id].exists /\ users'[id].direct]_vars

\* C2 witness: get_or_create(direct=False) returned a stored user whose
\* direct flag is true, after writing it
C2_Witness ==
    /\ Returned("get_or_create")
    /\ call.req.kw.direct = "false"
    /\ call.req.propagate
    /\ call.res.result = "w1"
    /\ call.res.existing
    /\ users["w1"].direct

\* the status get_or_create tests at lines 307, 334 or 342, in the step that
\* runs the pending call: that of the user found by id (after its reload),
\* of the user found through a copy, or of the user constructed
SubjectStatus ==
    LET r == call.req
        found == get_by_id(users, profiles, r.id, TRUE)
        orig == get_original_user_key(users, lru_user, mc_user, r.id).key
        loaded == call'.res.loaded
    IN  IF found /= NONE
            THEN IF r.reload
                    THEN user_status(found, reload_user(users[found], loaded),
                                     reload_profiles(profiles, found, loaded))
                 ELSE user_status(found, users[found], profiles)
        ELSE IF orig /= NONE THEN user_status(orig, users[orig], profiles)
        ELSE user_status(r.id, reload_user(NewUser(r.kw), loaded),
                         reload_profiles(profiles, r.id, loaded))

\* C9: User.get_or_create with allow_opt_out false returns no user and
\* writes no user record when the user found by id, found through a copy or
\* newly constructed has a status.
C9_OptedOutNotCreated ==
    [][(/\ Runs("get_or_create")
        /\ ~call.req.allow_opt_out
        /\ SubjectStatus /= NONE)
          => (call'.res.result = NONE /\ users' = users)]_vars

\* C9 witness: get_or_create(allow_opt_out=False) of a new id whose profile,
\* just loaded, says #nobridge returned None and stored no user
C9_Witness ==
    /\ Returned("get_or_create")
    /\ ~call.req.allow_opt_out
    /\ call.res.result = NONE
    /\ "#nobridge" \in call.res.loaded.summary
    /\ ~users[call.req.id].exists

\* C10 as stated: User.get_by_id with allow_opt_out false never returns a
\* user that has a status, also for ids that redirect through use_instead.
C10_NeverReturnsOptedOut ==
    (/\ Returned("get_by_id")
     /\ ~call.req.allow_opt_out
     /\ call.res.result /= NONE)
       => user_status(call.res.result, users[call.res.result], profiles) = NONE

(***************************************************************************)
(* Properties of the copy lookup caches (SpecCache).                       *)
(***************************************************************************)
\* C3 as stated: once User.add('copies', T) has returned in this process,
\* the next get_original_user_key(T.uri) returns the owning user's key
\* without a datastore query, whatever lookups happened before the append.
C3_ReadAfterAppend ==
    (Returned("get_original_user_key") /\ call.req.id \in appended)
       => /\ call.res.result /= NONE
          /\ \E c \in users[call.res.result].copies : c.uri = call.req.id
          /\ call.res.queried = 0

NotAmongOwners(obj, id, authed_as) ==
    LET orig_as1 == as1(obj, id)
        owners == {normalize_user_id(owner, obj.source_protocol) :
                      owner \in get_ids(orig_as1, "author")
                                   \cup get_ids(orig_as1, "actor") \cup {id}}
    IN  /\ normalize_user_id(authed_as, obj.source_protocol) \notin owners
        /\ profile_id(authed_as, obj.source_protocol) \notin owners

\* C1 as stated: Object.get_or_create on an id whose stored record has
\* canonical content is rejected with the authorization failure, and leaves
\* the stored record unchanged, whenever the authenticated actor is not
\* among the normalized owners by its normalized id or its profile id.
C1_NonOwnerForbidden ==
    [][(/\ Runs("Object.get_or_create")
        /\ objects[call.req.id].exists
        /\ as1(objects[call.req.id], call.req.id) /= Absent
        /\ call.req.authed_as /= NONE
        /\ NotAmongOwners(objects[call.req.id], call.req.id,
                          call.req.authed_as))
          => (call'.res.result = "forbidden" /\ objects' = objects)]_vars

\* the call that has returned repeated, with the same arguments, a call on
\* an id that had no record
RepeatedOnFresh ==
    /\ Returned("Object.get_or_create")
    /\ call.first /= Absent
    /\ ~call.first.existed

\* C5 as stated: two Object.get_or_create calls in a row with identical
\* inputs on a fresh id create the record in the first call (new = true) and
\* return it from the second with new = false and changed = false, one record
\* being stored for the id.
C5_TwiceSameInputs ==
    RepeatedOnFresh =>
        /\ call.first.result = "ok" /\ call.first.new
        /\ call.res.result = "ok" /\ ~call.res.new
        /\ call.res.changed = "false"
        /\ objects[call.req.id].exists

\* C5, amended: if the first of the two calls returns, it has created the
\* record (new = true); if the second returns too, it returns that record
\* with new = false and changed = false, one record being stored for the id;
\* and with inputs that carry no content the second call does return.
C5_TwiceSameInputsReturned ==
    (RepeatedOnFresh /\ call.first.result = "ok") =>
        /\ call.first.new
        /\ objects[call.req.id].exists
        /\ call.res.result = "ok" =>
              /\ ~call.res.new
              /\ call.res.changed = "false"
        /\ call.req.props.slot = "none" => call.res.result = "ok"

\* C5 witness: the second of two calls that pass as2 content, with its
\* owner as authed_as, has returned the record unchanged
C5_Witness ==
    /\ RepeatedOnFresh
    /\ call.req.props.slot = "as2"
    /\ call.first.result = "ok"
    /\ call.res.result = "ok"
    /\ ~call.res.new
    /\ call.res.changed = "false"

(***************************************************************************)
(* Properties of enable_protocol and disable_protocol (SpecEnable).        *)
(***************************************************************************)
\* no call is in progress
Quiescent == \A p \in Procs : procs[p].pc = "idle"

\* some enable_protocol call for label has completed
EnableCompleted(label) == \E p \in Procs : label \in procs[p].enabled

\* C7 as stated: over any sequence and interleaving of enable_protocol and
\* disable_protocol calls for one user and one protocol, transaction retries
\* included, the welcome notification is queued never more than once, and,
\* the calls having returned, once if an enable occurred.
C7_WelcomeExactlyOnce ==
    \A label \in EnableLabels :
       /\ dms[label] <= 1
       /\ (Quiescent /\ EnableCompleted(label)) => dms[label] = 1

\* no protocol has been the subject of calls of two different processes
DifferentProtocols ==
    \A p, q \in Procs : \A label \in EnableLabels :
       (p /= q /\ procs[p].last[label] /= "none")
          => procs[q].last[label] = "none"

\* C8: when enable_protocol and disable_protocol calls for different
\* protocols have run concurrently on separately loaded instances of the
\* user, the stored enabled_protocols reflects every call: each enabled
\* label is present and each disabled label is absent.
C8_NoLostUpdate ==
    (Quiescent /\ DifferentProtocols) =>
        \A p \in Procs : \A label \in EnableLabels :
           /\ procs[p].last[label] = "enable"
                 => label \in users[EnableUser].enabled_protocols
           /\ procs[p].last[label] = "disable"
                 => label \notin users[EnableUser].enabled_protocols

\* C8 witness: two processes have enabled one protocol each, one of the
\* two transactions having conflicted with the other and run again
C8_Witness ==
    /\ Quiescent
    /\ DifferentProtocols
    /\ procs["p1"].last["atproto"] = "enable"
    /\ procs["p2"].last["activitypub"] = "enable"
    /\ \E p \in Procs : procs[p].retried
    /\ users[EnableUser].enabled_protocols = {"atproto", "activitypub"}

(***************************************************************************)
(* Properties of fetch_page (SpecPage).                                    *)
(***************************************************************************)
\* fetch_page has returned for a request with after = T1 and no before
AfterRequest ==
    /\ Returned("fetch_page")
    /\ call.req.after.kind = "iso"
    /\ call.req.before.kind = "empty"

\* T1 of the request, as a naive UTC datetime
T1 == get_paging_param(call.req.after).dt

\* the ordering timestamp of the i-th item of the page returned
PageTime(i) == by_value(objects, call.res.results[i], call.req.by)

\* C11 as stated: fetch_page requested with after = T1 returns at most
\* PAGE_SIZE items, each with ordering timestamp >= T1, in descending order
\* of the ordering timestamp within the page.
C11_AfterPageDescending ==
    AfterRequest =>
        /\ call.res.result = "ok"
        /\ Len(call.res.results) <= PAGE_SIZE
        /\ \A i \in 1..Len(call.res.results) : PageTime(i) >= T1
        /\ \A i, j \in 1..Len(call.res.results) :
              i < j => PageTime(i) >= PageTime(j)

\* the ordering timestamp of the oldest item of the page returned
OldestInPage ==
    CHOOSE t \in {PageTime(i) : i \in 1..Len(call.res.results)} :
       \A i \in 1..Len(call.res.results) : t <= PageTime(i)

\* the request with after = T1 returned a page with items, and entities
\* older than T1 are stored
OlderPageExists ==
    /\ AfterRequest
    /\ call.res.results /= <<>>
    /\ \E id \in PageIds :
          objects[id].exists /\ by_value(objects, id, call.req.by) < T1

\* C12 as stated: fetch_page requested with after = T1, when a further older
\* page exists, returns a before cursor equal to the timestamp of the oldest
\* item in the returned page.
C12_BeforeIsOldestInPage ==
    OlderPageExists => call.res.new_before = isoformat(OldestInPage)

\* C12, amended: the before cursor returned is T1 itself, in ISO 8601 form;
\* T1 is at most the timestamp of the oldest item in the page, and the
\* stored entities older than that item are the entities older than T1.
C12_BeforeIsAfter ==
    OlderPageExists =>
        /\ call.res.new_before = isoformat(T1)
        /\ T1 <= OldestInPage
        /\ \A id \in PageIds :
              (objects[id].exists
                 /\ by_value(objects, id, call.req.by) < OldestInPage)
                => by_value(objects, id, call.req.by) < T1

\* C12 witness: a page was returned for after = T1 whose oldest item is
\* newer than T1, older entities being stored
C12_Witness ==
    /\ OlderPageExists
    /\ OldestInPage > T1
    /\ call.res.new_before = isoformat(T1)

\* the canonical forms a and b, both non-empty, differ in a property other
\* than inReplyTo
DiffersBesidesInReplyTo(a, b) ==
    \E k \in (DOMAIN a \cup DOMAIN b) \ {"inReplyTo"} :
       \/ k \notin DOMAIN a
       \/ k \notin DOMAIN b
       \/ a[k] /= b[k]

\* C15 as stated: for an existing record, changed is true exactly when one
\* of the prior and new canonical forms is empty and the other is not, or
\* both are non-empty and differ in something other than inReplyTo.
C15_ChangedIffDiffers ==
    [][(/\ Runs("Object.get_or_create")
        /\ objects[call.req.id].exists
        /\ call'.res.result = "ok")
          => LET prior == as1(objects[call.req.id], call.req.id)
                 new == as1(objects'[call.req.id], call.req.id)
             IN  (call'.res.changed = "true") <=>
                    IF prior = Absent \/ new = Absent
                        THEN (prior = Absent) /= (new = Absent)
                    ELSE DiffersBesidesInReplyTo(prior, new)]_vars

\* C15, amended: for an existing record, changed is true exactly when one
\* of the prior and new canonical forms is empty and the other is not, or
\* both are non-empty and differ in one of the properties that
\* as1.activity_changed compares (objectType, content); it is false when
\* they differ only in inReplyTo, author, actor or id.
C15_ChangedIffComparedDiffer ==
    [][(/\ Runs("Object.get_or_create")
        /\ objects[call.req.id].exists
        /\ call'.res.result = "ok")
          => LET prior == as1(objects[call.req.id], call.req.id)
                 new == as1(objects'[call.req.id], call.req.id)
             IN  (call'.res.changed = "true") <=>
                    IF prior = Absent \/ new = Absent
                        THEN (prior = Absent) /= (new = Absent)
                    ELSE \/ prior.objectType /= new.objectType
                         \/ prior.content /= new.content]_vars

\* C15 witness: a call on an existing record has returned changed = false
\* for content that differs from the prior content in inReplyTo only
C15_Witness ==
    /\ Returned("Object.get_or_create")
    /\ call.res.result = "ok"
    /\ call.res.existed
    /\ call.res.changed = "false"
    /\ call.req.props.slot = "our_as1"
    /\ "inReplyTo" \in DOMAIN call.res.orig_as1
    /\ call.res.orig_as1.inReplyTo = "r1"
    /\ call.req.props.value.inReplyTo = "r2"
    /\ call.res.orig_as1.author = call.req.props.value.author
    /\ call.res.orig_as1.content = call.req.props.value.content

(***************************************************************************)
(* Properties of resolve_ids and normalize_ids (SpecResolve).              *)
(***************************************************************************)
\* the ids of a canonical form, by where they stand
IdsOf(v) ==
    [actor |-> v.actor, author |-> v.author, inReplyTo |-> v.inReplyTo,
     object |-> v.object.id, object2 |-> v.object.id2,
     object_author |-> v.object.author,
     object_inReplyTo |-> v.object.inReplyTo]

\* id is a copy id of a stored user
IsUserCopy(id) == id /= NONE /\ original_user_query(users, id) /= NONE

\* id is a copy id of a stored Object
IsObjectCopy(id) == get_original_object_key(objects, id) /= NONE

\* normalize_ids has returned, called right after resolve_ids
ResolvedThenNormalized ==
    /\ Returned("normalize_ids")
    /\ call.first /= Absent
    /\ call.first.op = "resolve_ids"

\* C13 as stated: after resolve_ids and then normalize_ids, every id of the
\* canonical form that was neither a copy id nor a bridge-subdomain wrapper
\* is left unchanged.
C13_OtherIdsUnchanged ==
    ResolvedThenNormalized =>
        \A k \in DOMAIN IdsOf(call.first.before) :
           LET id == IdsOf(call.first.before)[k]
           IN  (/\ id /= NONE
                /\ ~IsUserCopy(id) /\ ~IsObjectCopy(id)
                /\ unwrap_id(id) = id)
                 => IdsOf(call.res.after)[k] = id

\* C14 as stated: after resolve_ids on an Object with canonical content,
\* every inReplyTo value (outer and inner) that is a copy id of a known
\* Object is replaced by that Object's id, and every actor or author value
\* that is a copy id of a known user is replaced by that user's id.
C14_CopiesResolved ==
    Returned("resolve_ids") =>
        \A k \in DOMAIN IdsOf(call.res.before) :
           LET id == IdsOf(call.res.before)[k]
           IN  /\ (k \in {"inReplyTo", "object_inReplyTo"} /\ IsObjectCopy(id))
                    => IdsOf(call.res.after)[k]
                         = get_original_object_key(objects, id)
               /\ (k \in {"actor", "author", "object_author"} /\ IsUserCopy(id))
                    => IdsOf(call.res.after)[k]
                         = original_user_query(users, id)

\* the content variants populated on the entity o
Populated(o) ==
    {slot \in {"our_as1", "as2", "mf2"} : o[slot] /= Absent}

\* C17 as stated: after any sequence of Object.get_or_create, resolve_ids
\* and normalize_ids calls on an id, at most one content variant is
\* populated on the record, so that no canonical form is stored alongside
\* the native content it was derived from.
C17_OneContentVariant ==
    \A id \in DOMAIN objects : Cardinality(Populated(objects[id])) <= 1

(***************************************************************************)
(* C16: once a protocol class is registered, PROTOCOLS maps its LABEL,     *)
(* its ABBREV and each of its OTHER_LABELS to that class.                  *)
(***************************************************************************)
C16_LabelsMapToProtocol ==
    \A cls \in RegClasses :
        (cls.name \in registry.by_kind /\ cls.has_label) =>
            \A label \in {cls.LABEL, cls.ABBREV} \cup cls.OTHER_LABELS :
                registry.by_label[label] = cls.name

\* Web is registered, and found under its label and its other label
C16_Witness ==
    /\ "Web" \in registry.by_kind
    /\ registry.by_label["web"] = "Web"
    /\ registry.by_label["webmention"] = "Web"

(***************************************************************************)
(* C18: User.get_or_create(id), for an id with no stored user of its own   *)
(* that is among the copies of a stored user of another protocol, returns  *)
(* that user and stores no new user.  Stated for the calls that the        *)
(* opt-out test of lines 334-335 lets through: the user is not opted out,  *)
(* or allow_opt_out is given.                                              *)
(***************************************************************************)
\* the stored users of another protocol that have id among their copies
OriginalsOf(id) ==
    {i \in UserIds : /\ users[i].exists
                     /\ Owner(i) /= Owner(id)
                     /\ \E c \in users[i].copies : c.uri = id}

C18_CopyIdReturnsOriginal ==
    [][(/\ User_get_or_create
        /\ ~users[call.req.id].exists
        /\ OriginalsOf(call.req.id) /= {}
        /\ \A i \in OriginalsOf(call.req.id) :
              ~opted_out(i, users[i], profiles, call.req.allow_opt_out))
          => /\ call'.res.result \in OriginalsOf(call.req.id)
             /\ \A i \in UserIds : users'[i].exists => users[i].exists]_vars

(***************************************************************************)
(* C19: whatever the interleaving of concurrent Follower.get_or_create     *)
(* calls, no two stored Follower entities have the same from_ and to.      *)
(***************************************************************************)
C19_OneEdgePerPair ==
    \A f, g \in followers : (f.from_ = g.from_ /\ f.to = g.to) => f = g

\* C19 witness: both processes have returned from get_or_create for the
\* pair (w1, a1), one of them after its first commit conflicted with the
\* other's put, and an edge of the pair is stored
C19_Witness ==
    /\ \A p \in Procs :
          /\ procs[p].pc = "idle"
          /\ procs[p].result = "ok"
          /\ procs[p].req /= Absent
          /\ procs[p].calls = 1
    /\ \A p \in Procs : procs[p].req.from_ = "w1" /\ procs[p].req.to = "a1"
    /\ \E p \in Procs : procs[p].retried
    /\ \E f \in followers : f.from_ = "w1" /\ f.to = "a1"

(***************************************************************************)
(* C20: for a user whose status is opt-out because its profile carries     *)
(* #nobridge, is_enabled(to_proto) is false for every to_proto other than  *)
(* the user's own protocol, the ones in its enabled_protocols included.    *)
(***************************************************************************)
\* the user asked has status opt-out, not by manual_opt_out but by the
\* #nobridge in its profile's summary or displayName
NoBridgeOptOut ==
    LET id == call.req.id
    IN  /\ user_status(id, users[id], profiles) = "opt-out"
        /\ ~users[id].manual_opt_out
        /\ \/ "#nobridge" \in profiles[id].summary
           \/ "#nobridge" \in profiles[id].nameMarkers

C20_NoBridgeNeverEnabled ==
    (/\ Returned("is_enabled")
     /\ users[call.req.id].exists
     /\ NoBridgeOptOut
     /\ call.req.to_proto /= Owner(call.req.id))
       => ~call.res.result

(***************************************************************************)
(* C21: User.status is the outcome of the first rule that matches, of the  *)
(* ten rules in their documented order; in particular a user with a        *)
(* non-empty enabled_protocols has no status when its profile is not       *)
(* public or carries #nobot and no earlier rule matches.                   *)
(***************************************************************************)
\* the ten rules, each a condition and the status it gives
StatusRules(cls, manual_opt_out, enabled_protocols, obj) ==
    << <<manual_opt_out, "opt-out">>,
       <<~obj.as1, NONE>>,
       <<cls.REQUIRES_AVATAR /\ ~obj.image, "blocked">>,
       <<cls.REQUIRES_NAME /\ obj.displayName \in {"absent", "handle"},
         "blocked">>,
       <<cls.REQUIRES_OLD_ACCOUNT /\ obj.published = "recent", "blocked">>,
       <<"#nobridge" \in obj.summary \cup obj.nameMarkers, "opt-out">>,
       <<enabled_protocols /= {}, NONE>>,
       <<~obj.public, "opt-out">>,
       <<"#nobot" \in obj.summary \cup obj.nameMarkers, "opt-out">>,
       <<TRUE, NONE>> >>

\* the outcome of the first rule whose condition holds
FirstMatch(rules) ==
    rules[CHOOSE i \in 1..Len(rules) :
             rules[i][1] /\ \A j \in 1..(i - 1) : ~rules[j][1]][2]

C21_StatusIsFirstMatch ==
    st.phase = "read" =>
        st.result = FirstMatch(StatusRules(st.cls, st.manual_opt_out,
                                           st.enabled_protocols, st.obj))

\* C21 witness: an opted-in user that passes rules 1 to 6, with a profile
\* that is not public and carries #nobot, has no status
C21_Witness ==
    /\ st.phase = "read"
    /\ ~st.manual_opt_out
    /\ st.cls.REQUIRES_AVATAR /\ st.cls.REQUIRES_NAME
    /\ st.cls.REQUIRES_OLD_ACCOUNT
    /\ st.obj.as1 /\ st.obj.image /\ st.obj.displayName = "real"
    /\ st.obj.published = "old"
    /\ "#nobridge" \notin st.obj.summary \cup st.obj.nameMarkers
    /\ st.enabled_protocols /= {}
    /\ ~st.obj.public
    /\ "#nobot" \in st.obj.summary
    /\ st.result = NONE

(***************************************************************************)
(* C22: is_enabled follows the decision order: a manually opted-out user   *)
(* is not enabled for another protocol, else a protocol in                 *)
(* enabled_protocols is enabled, else a user with a status is not enabled, *)
(* else the target is enabled exactly when it is in the                    *)
(* DEFAULT_ENABLED_PROTOCOLS of the user's protocol and explicit is false. *)
(***************************************************************************)
\* the four rules of the decision order, for the call that returned
EnabledRules ==
    LET id == call.req.id
        u == users[id]
        to == call.req.to_proto
    IN  << <<u.manual_opt_out, FALSE>>,
           <<to \in u.enabled_protocols, TRUE>>,
           <<user_status(id, u, profiles) /= NONE, FALSE>>,
           <<TRUE, /\ to \in PROTOCOLS(Owner(id)).DEFAULT_ENABLED_PROTOCOLS
                   /\ ~call.req.explicit>> >>

\* C22 as stated, for every user and every other protocol
C22_DecisionOrder ==
    (Returned("is_enabled") /\ call.req.to_proto /= Owner(call.req.id))
        => call.res.result = FirstMatch(EnabledRules)

\* C22, amended: the user's own protocol is always enabled; one of the
\* bridge's own accounts (an id on a bridge subdomain) is enabled for every
\* protocol but the one its subdomain stands for; every other user follows
\* the four rules.
C22_DecisionOrderAfterBot ==
    Returned("is_enabled") =>
        call.res.result =
            FirstMatch(<< <<call.req.to_proto = Owner(call.req.id), TRUE>>,
                          <<for_bridgy_subdomain(call.req.id) /= NONE,
                            call.req.to_proto
                                /= for_bridgy_subdomain(call.req.id)>> >>
                       \o EnabledRules)

\* C22 witness: the bridge's ATProto account, manually opted out, was asked
\* about ActivityPub and is enabled for it
C22_Witness ==
    /\ Returned("is_enabled")
    /\ call.req.id = "bsky.brid.gy"
    /\ users[call.req.id].manual_opt_out
    /\ call.req.to_proto = "activitypub"
    /\ call.res.result

(***************************************************************************)
(* C23: a User.get_or_create call whose transaction body ran again after   *)
(* a conflicting write has, once it returns, invoked create_for for each   *)
(* protocol as often as the one run that committed did: not at all, or     *)
(* once.                                                                   *)
(***************************************************************************)
C23_RerunSameAsOnce ==
    \A p \in Procs :
        (procs[p].pc = "done" /\ procs[p].runs > 1) =>
            \A l \in Labels :
                procs[p].invoked[l] =
                    IF l \in procs[p].out.attempted THEN 1 ELSE 0

(***************************************************************************)
(* C24: when create_for raises for a protocol during the propagation of    *)
(* User.get_or_create, that protocol alone is removed from                 *)
(* enabled_protocols, get_or_create still returns the user, and create_for *)
(* is still called for every other protocol it would have been called for. *)
(***************************************************************************)
\* the protocols whose create_for was called and raised
FailedCopies == Range(call.res.attempted) \cap call.req.fails

\* the protocols create_for is called for when none raises
AttemptedIfNoneFails ==
    Range(get_or_create_propagate(call.req.id, call.res.before, profiles,
                                  call.req.allow_opt_out,
                                  call.req.enabled_list, {}).attempted)

C24_FailureIsLocal ==
    (/\ Returned("get_or_create")
     /\ "fails" \in DOMAIN call.req
     /\ FailedCopies /= {})
       => /\ users[call.req.id].enabled_protocols
                = call.res.before.enabled_protocols \ FailedCopies
          /\ call.res.result = call.req.id
          /\ AttemptedIfNoneFails \subseteq Range(call.res.attempted)

(***************************************************************************)
(* C25: User.get_or_create with propagate calls create_for for exactly the *)
(* protocols that are in the user's enabled_protocols or in its class's    *)
(* DEFAULT_ENABLED_PROTOCOLS, have copies, are not the user's own and do   *)
(* not yet have a copy of the user; and for none when the user has a       *)
(* status.                                                                 *)
(***************************************************************************)
\* the protocols the user, as stored before the call, is due a copy in
CopiesDue ==
    LET id == call.req.id
        u == call.res.before
    IN  IF user_status(id, u, profiles) /= NONE THEN {}
        ELSE {l \in u.enabled_protocols
                      \cup PROTOCOLS(Owner(id)).DEFAULT_ENABLED_PROTOCOLS :
                 /\ PROTOCOLS(l).HAS_COPIES
                 /\ l /= Owner(id)
                 /\ \A c \in u.copies : c.protocol /= l}

C25_CopiesForExactlyTheDue ==
    (Returned("get_or_create") /\ "fails" \in DOMAIN call.req)
        => Range(call.res.attempted) = CopiesDue

\* C26 as stated: when the final write of User.get_or_create fails
\* validation (an id the put rejects), get_or_create returns to its caller
\* without raising.
C26_WriteFailureReturns ==
    Returned("get_or_create") /\ ~ValidId(call.req.id) =>
        call.res.result /= "error"

\* C26: when the final write of User.get_or_create fails validation, the
\* call raises the HTTP error and stores no user; it never raises that error
\* for an id the put accepts, and when it returns the user of the id it was
\* called with, that user is stored.
C26_WriteFailureRaises ==
    [][Runs("get_or_create") =>
          LET id == call.req.id
              res == call'.res.result
          IN  /\ ~ValidId(id) => res \in {"error", NONE} /\ users' = users
              /\ res = "error" => ~ValidId(id)
              /\ res = id => users'[id].exists]_vars

\* C26 witness: get_or_create of a malformed id reached its put and raised
C26_Witness ==
    /\ Returned("get_or_create")
    /\ ~ValidId(call.req.id)
    /\ call.res.result = "error"
    /\ ~users[call.req.id].exists

\* C27 as stated: Object.get_or_create on an existing record with canonical
\* content and no authenticated actor id is rejected with the forbidden
\* authorization outcome, as for a non-owner, and not with a validation or
\* assertion failure.
C27_NoActorForbidden ==
    (/\ Returned("Object.get_or_create")
     /\ call.res.existed
     /\ call.res.orig_as1 /= Absent
     /\ call.req.authed_as = NONE)
      => call.res.result = "forbidden"

FromSupplied(props, id) ==
    as1(populate([NoObject EXCEPT !.exists = TRUE], props), id)

\* C29 as stated: after Object.get_or_create on an existing record with a
\* non-empty as2 or mf2 value, the record's canonical form is derived from
\* the value supplied and never from content stored before the call.
C29_CanonicalFromSupplied ==
    [][(/\ Runs("Object.get_or_create")
        /\ objects[call.req.id].exists
        /\ call.req.props.slot \in {"as2", "mf2"}
        /\ call'.res.result = "ok")
          => as1(objects'[call.req.id], call.req.id)
                = FromSupplied(call.req.props, call.req.id)]_vars

(***************************************************************************)
(* Properties of a walk over the pages (SpecScroll).                       *)
(***************************************************************************)
\* how many times id occurs on the pages
RECURSIVE Occurrences(_, _)
Occurrences(pages, id) ==
    IF pages = <<>> THEN 0
    ELSE Cardinality({i \in 1..Len(pages[1]) : pages[1][i] = id})
         + Occurrences(Tail(pages), id)

\* the walk in the direction walk has fetched its last page: the page just
\* returned has no cursor to go on with
ScrollDone(walk) ==
    /\ Returned("fetch_page")
    /\ call.req.walk = walk
    /\ call.res.result = "ok"
    /\ IF walk = "before" THEN call.res.new_before = Absent
       ELSE call.res.new_after = Absent

\* C30 as stated: from the first page, requesting the page at the returned
\* before cursor until none is returned, every item matching the query is
\* returned on exactly one page, whatever the timestamps, equal ones
\* included; the same holds for the items from a returned after cursor on
\* when paging forward with the after cursors.
C30_EveryItemOnOnePage ==
    LET pages == Append(appended, call.res.results)
    IN  /\ ScrollDone("before") =>
              \A id \in PageIds :
                 Occurrences(pages, id) = IF objects[id].exists THEN 1 ELSE 0
        /\ ScrollDone("after") =>
              \A id \in PageIds :
                 Occurrences(pages, id) =
                    IF /\ objects[id].exists
                       /\ by_value(objects, id, call.req.by) >= call.req.start
                        THEN 1 ELSE 0

\* C31 as stated: for every ordering property passed to fetch_page as by
\* (created or updated), the page returned is sorted descending by that same
\* property.
C31_PageSortedByBy ==
    (Returned("fetch_page") /\ call.res.result = "ok") =>
        \A i, j \in 1..Len(call.res.results) :
           i < j => by_value(objects, call.res.results[i], call.req.by)
                       >= by_value(objects, call.res.results[j], call.req.by)

(***************************************************************************)
(* Properties of the ownership validation of Object puts (SpecOwns).       *)
(***************************************************************************)
\* the source protocol the record of the pending call is put with
PutSourceProtocol ==
    IF call.req.props.source_protocol = "omit"
        THEN objects[call.req.id].source_protocol
    ELSE call.req.props.source_protocol

Count(lst, val) == Cardinality({i \in 1..Len(lst) : lst[i] = val})

\* C33 as stated: after every successful Object put, labels contains
\* 'activity' exactly once if the canonical form is an activity and not at
\* all otherwise, whatever labels the record had before.
C33_ActivityLabelMatches ==
    Returned("Object.put") =>
        LET o == objects[call.req.id]
        IN  Count(o.labels, "activity")
               = IF o.objectType = "activity" THEN 1 ELSE 0

(***************************************************************************)
(* Properties of the merge of enabled_protocols (SpecMerge).               *)
(***************************************************************************)
\* get_or_create with enabled_protocols passed runs on a stored user, and no
\* copy creation fails
MergeRuns ==
    /\ Runs("get_or_create")
    /\ users[call.req.id].exists
    /\ call.req.kw.enabled_protocols /= {}
    /\ ~call'.res.fail

\* C34 as stated: User.get_or_create on an existing user with
\* enabled_protocols supplied leaves the stored enabled_protocols equal to
\* the union of the previously stored and the supplied labels, when no copy
\* creation fails.
C34_StoredIsUnion ==
    [][MergeRuns =>
          users'[call.req.id].enabled_protocols
             = users[call.req.id].enabled_protocols
                  \cup call.req.kw.enabled_protocols]_vars

\* C34: when the existing user is returned, the stored enabled_protocols
\* are the union of the previously stored and the supplied labels, if no
\* copy creation fails; when the user has a status and allow_opt_out is
\* false, nothing is returned and the stored user is unchanged.
C34_StoredIsUnionIfReturned ==
    [][MergeRuns =>
          IF opted_out(call.req.id, users[call.req.id], profiles,
                       call.req.allow_opt_out)
              THEN call'.res.result = NONE /\ users' = users
          ELSE /\ call'.res.result = call.req.id
               /\ users'[call.req.id].enabled_protocols
                     = users[call.req.id].enabled_protocols
                          \cup call.req.kw.enabled_protocols]_vars

\* C34 witness: get_or_create returned a user whose stored
\* enabled_protocols hold the labels passed and, from before the call, a
\* label that was not passed
C34_Witness ==
    /\ Returned("get_or_create")
    /\ call.res.result = call.req.id
    /\ ~call.res.fail
    /\ call.req.kw.enabled_protocols /= {}
    /\ call.req.kw.enabled_protocols \subseteq
          users[call.req.id].enabled_protocols
    /\ users[call.req.id].enabled_protocols
          /= call.req.kw.enabled_protocols

\* no id of the canonical form v is a bridge-subdomain wrapper or the copy id
\* of a stored user or Object
NothingToResolve(v) ==
    \A k \in DOMAIN IdsOf(v) :
       LET id == IdsOf(v)[k]
       IN  id /= NONE =>
              ~IsUserCopy(id) /\ ~IsObjectCopy(id) /\ unwrap_id(id) = id

\* the stored content fields of the entity o
ContentFields(o) == [our_as1 |-> o.our_as1, as2 |-> o.as2, mf2 |-> o.mf2]

C36_UpdateOnlySupplied ==
    [][(/\ Runs("Follower.get_or_create")
        /\ query_follower(followers, call.req.from_, call.req.to) /= {})
          => LET old == CHOOSE f \in query_follower(followers, call.req.from_,
                                                    call.req.to) : TRUE
                 kw == call.req.kw
             IN  /\ call'.res.result = "ok"
                 /\ call'.res.put = (kw /= "omit")
                 /\ kw = "omit" => followers' = followers
                 /\ kw /= "omit" =>
                       followers' = (followers \ {old})
                                       \cup {[old EXCEPT !.status = kw]}]_vars

\* C36 witness: get_or_create without fields has returned for an edge that
\* is stored as inactive, without a put
C36_Witness ==
    /\ Returned("Follower.get_or_create")
    /\ call.req.kw = "omit"
    /\ call.res.result = "ok"
    /\ ~call.res.put
    /\ \E f \in followers :
          /\ f.from_ = call.req.from_
          /\ f.to = call.req.to
          /\ f.status = "inactive"

(***************************************************************************)
(* Properties of Follower.fetch_page (SpecFollowPage).                     *)
(***************************************************************************)
\* C37 as stated: every edge returned by Follower.fetch_page is active, has
\* the given user as to (for followers) or from (for following), and has a
\* counterpart user whose status is empty; the call completes for every
\* stored configuration and modifies no stored edge.
C37_PageOfVisibleEdges ==
    [][Runs("Follower.fetch_page") =>
          /\ call'.res.result = "ok"
          /\ objects' = objects
          /\ \A i \in 1..Len(call'.res.results) :
                LET f == objects[call'.res.results[i]]
                    followers_of == call.req.collection = "followers"
                    other == IF followers_of THEN f.from_ ELSE f.to
                IN  /\ f.exists /\ f.status = "active"
                    /\ (IF followers_of THEN f.to ELSE f.from_) = call.req.user
                    /\ users[other].exists
                    /\ user_status(other, users[other], profiles) = NONE]_vars

(***************************************************************************)
(* Properties of get_original_user_key (SpecUser).                         *)
(***************************************************************************)
\* C38 as stated: get_original_user_key(id) returns either nothing or the key
\* of a user whose copies contain id, and never a user of 'ui' or of a
\* protocol that claims native ownership of id.
C38_OriginalHasCopy ==
    Returned("get_original_user_key") =>
        LET k == call.res.result
            id == call.req.id
        IN  \/ k = NONE
            \/ /\ users[k].exists
               /\ \E c \in users[k].copies : c.uri = id
               /\ Owner(k) /= "ui"
               /\ ~owns_id(Owner(k), id)

C40_ReadIsPure ==
    [][Runs("as1") =>
          /\ ContentFields(objects'[call.req.id])
                 = ContentFields(objects[call.req.id])
          /\ (call.first /= Absent /\ call.first.op = "as1")
                 => call'.res.result = call.first.result]_vars

====
